---- MODULE Spec2Model ----
(***************************************************************************)
(* Model of the Reflector workspace tooling:                               *)
(*   scripts/init-reflector.js  (parseTime, timeToCron, init, parseArgs)   *)
(*   scripts/log-outcome.js     (buildEntry, appendEntry, log, parseArgs)  *)
(* The workspace is a small tree of paths under one root.  A call is a     *)
(* sequence of steps, each holding at most one filesystem call; Spec runs  *)
(* a call to completion in one action (the program is synchronous),        *)
(* SpecConc interleaves the steps of calls made by separate processes,     *)
(* SpecFresh makes init and log calls on a root that starts empty, and     *)
(* SpecFn makes one call of a pure function: buildEntry, parseTime or      *)
(* timeToCron, SpecInit one call of init over all its options, and        *)
(* SpecCli one run of a command-line adapter.                              *)
(***************************************************************************)
EXTENDS Integers, Sequences, FiniteSets, TLC

\* ---------------------------------------------------------------------------
\* Bounds
\* ---------------------------------------------------------------------------

MaxCalls == 2

MaxLines == 2

MaxArgs == 3

\* the clock reads 0..MaxNow, seconds of one minute
MaxNow == 11

\* ---------------------------------------------------------------------------
\* JavaScript values.  A string is its sequence of characters.
\* ---------------------------------------------------------------------------

Undef == [t |-> "undefined", s |-> <<>>, b |-> FALSE]

Null == [t |-> "null", s |-> <<>>, b |-> FALSE]

Str(chars) == [t |-> "string", s |-> chars, b |-> FALSE]

Bool(v) == [t |-> "boolean", s |-> <<>>, b |-> v]

Truthy(v) ==
    CASE v.t = "string" -> v.s # <<>>
      [] v.t = "boolean" -> v.b
      [] OTHER -> FALSE

\* a || b
Or(a, b) == IF Truthy(a) THEN a ELSE b

\* String(v), as RegExp.prototype.exec coerces its argument
ToStr(v) ==
    CASE v.t = "string" -> v.s
      [] v.t = "undefined" -> <<"u","n","d","e","f","i","n","e","d">>
      [] v.t = "null" -> <<"n","u","l","l">>
      [] v.t = "boolean" -> IF v.b THEN <<"t","r","u","e">> ELSE <<"f","a","l","s","e">>

\* ---------------------------------------------------------------------------
\* The workspace filesystem
\* ---------------------------------------------------------------------------

RootPath == "/ws"

ROOT == "."

dirs == << "memory", "memory/reflector", "memory/reflector/weekly-summaries" >>

PRINCIPLES == "PRINCIPLES.md"

OUTCOMES == "memory/reflector/outcomes.jsonl"

HISTORY == "memory/reflector/principles-history.jsonl"

DEFAULT_LOG_DIR == "memory/reflector"

Paths == {ROOT, dirs[1], dirs[2], dirs[3], PRINCIPLES, OUTCOMES, HISTORY}

\* the containing directory of a path (path.dirname); the root is its own
Parent(p) ==
    CASE p = dirs[2] -> dirs[1]
      [] p = dirs[3] -> dirs[2]
      [] p = OUTCOMES -> dirs[2]
      [] p = HISTORY -> dirs[2]
      [] OTHER -> ROOT

RECURSIVE Ancestors(_)
\* the proper ancestors of a path, the root included
Ancestors(p) == IF p = ROOT THEN {} ELSE {Parent(p)} \cup Ancestors(Parent(p))

TextLine(txt) == [fmt |-> "text", fields |-> <<>>, text |-> txt]

Absent == [kind |-> "absent", content |-> <<>>]

Dir == [kind |-> "dir", content |-> <<>>]

File(c) == [kind |-> "file", content |-> c]

\* fs.existsSync: the path resolves, whatever lies there
existsSync(fs, p) ==
    /\ fs[p].kind # "absent"
    /\ \A a \in Ancestors(p) : fs[a].kind = "dir"

\* as mkdirSync, without the recursive option: a path that exists is an error
mkdirSync_exclusive(fs, p) ==
    LET chain == Ancestors(p) \cup {p}
    IN  IF \E a \in chain : fs[a].kind = "file"
        THEN [ok |-> FALSE, fs |-> fs, err |-> "ENOTDIR"]
        ELSE IF fs[p].kind = "dir"
        THEN [ok |-> FALSE, fs |-> fs, err |-> "EEXIST"]
        ELSE [ok |-> TRUE, err |-> "",
              fs |-> [q \in Paths |-> IF q \in chain THEN Dir ELSE fs[q]]]

\* fs.mkdirSync(p, {recursive: true}): creates p and its missing ancestors;
\* throws when p or an ancestor is a non-directory, creating nothing
mkdirSync(fs, p) ==
    LET chain == Ancestors(p) \cup {p}
    IN  IF \E a \in chain : fs[a].kind = "file"
        THEN [ok |-> FALSE, fs |-> fs,
              err |-> IF fs[p].kind = "file" /\ \A a \in Ancestors(p) : fs[a].kind = "dir"
                      THEN "EEXIST" ELSE "ENOTDIR"]
        ELSE [ok |-> TRUE, err |-> "",
              fs |-> [q \in Paths |-> IF q \in chain THEN Dir ELSE fs[q]]]

\* the error of opening p for writing, "" when the open succeeds
OpenError(fs, p) ==
    IF \E a \in Ancestors(p) : fs[a].kind = "file" THEN "ENOTDIR"
    ELSE IF \E a \in Ancestors(p) : fs[a].kind = "absent" THEN "ENOENT"
    ELSE IF fs[p].kind = "dir" THEN "EISDIR"
    ELSE ""

\* fs.writeFileSync(p, content): flag 'w', creates or truncates
writeFileSync(fs, p, c) ==
    IF OpenError(fs, p) # ""
    THEN [ok |-> FALSE, fs |-> fs, err |-> OpenError(fs, p)]
    ELSE [ok |-> TRUE, err |-> "", fs |-> [fs EXCEPT ![p] = File(c)]]

\* as appendFileSync, the data put in front of the old content
appendFileSync_front(fs, p, c) ==
    IF OpenError(fs, p) # ""
    THEN [ok |-> FALSE, fs |-> fs, err |-> OpenError(fs, p)]
    ELSE [ok |-> TRUE, err |-> "", fs |-> [fs EXCEPT ![p] = File(c \o fs[p].content)]]

\* as appendFileSync, opened with flag 'w'
appendFileSync_trunc(fs, p, c) ==
    IF OpenError(fs, p) # ""
    THEN [ok |-> FALSE, fs |-> fs, err |-> OpenError(fs, p)]
    ELSE [ok |-> TRUE, err |-> "", fs |-> [fs EXCEPT ![p] = File(c)]]

\* fs.appendFileSync(p, data): flag 'a', creates or extends at the end
appendFileSync(fs, p, c) ==
    IF OpenError(fs, p) # ""
    THEN [ok |-> FALSE, fs |-> fs, err |-> OpenError(fs, p)]
    ELSE [ok |-> TRUE, err |-> "", fs |-> [fs EXCEPT ![p] = File(fs[p].content \o c)]]

\* ---------------------------------------------------------------------------
\* init-reflector.js: templates, time parsing
\* ---------------------------------------------------------------------------

\* as DEFAULTS, the two times exchanged
DEFAULTS_swapped == [dailyTime |-> Str(<<"0","3",":","0","0">>),
                     weeklyTime |-> Str(<<"0","3",":","3","0">>)]

DEFAULTS == [dailyTime |-> Str(<<"0","3",":","3","0">>),
             weeklyTime |-> Str(<<"0","3",":","0","0">>)]

principlesTemplate == << TextLine("# PRINCIPLES.md - Decision-Making Framework") >>

files == << <<PRINCIPLES, principlesTemplate>>, <<OUTCOMES, <<>> >>, <<HISTORY, <<>> >> >>

Digits == {"0","1","2","3","4","5","6","7","8","9"}

DigitVal(c) ==
    CASE c = "0" -> 0 [] c = "1" -> 1 [] c = "2" -> 2 [] c = "3" -> 3
      [] c = "4" -> 4 [] c = "5" -> 5 [] c = "6" -> 6 [] c = "7" -> 7
      [] c = "8" -> 8 [] c = "9" -> 9

DigitChar(n) == CHOOSE c \in Digits : DigitVal(c) = n

RECURSIVE parseInt(_)
\* parseInt(s, 10) of a non-empty run of digits
parseInt(s) ==
    IF Len(s) = 1 THEN DigitVal(s[1])
    ELSE 10 * parseInt(SubSeq(s, 1, Len(s) - 1)) + DigitVal(s[Len(s)])

RECURSIVE DecStr(_)
\* the decimal text of a non-negative integer, as a template literal prints it
DecStr(n) == IF n < 10 THEN <<DigitChar(n)>> ELSE DecStr(n \div 10) \o <<DigitChar(n % 10)>>

\* as TimeMatch, for /^(\d{2}):(\d{2})$/: an hour of two digits only
TimeMatch_hh(s) ==
    IF /\ Len(s) = 5
       /\ s[1] \in Digits /\ s[2] \in Digits /\ s[3] = ":"
       /\ s[4] \in Digits /\ s[5] \in Digits
    THEN [ok |-> TRUE, g1 |-> SubSeq(s, 1, 2), g2 |-> SubSeq(s, 4, 5)]
    ELSE [ok |-> FALSE, g1 |-> <<>>, g2 |-> <<>>]

\* /^(\d{1,2}):(\d{2})$/.exec(str): the two groups, or no match
TimeMatch(s) ==
    IF /\ Len(s) = 4
       /\ s[1] \in Digits /\ s[2] = ":" /\ s[3] \in Digits /\ s[4] \in Digits
    THEN [ok |-> TRUE, g1 |-> SubSeq(s, 1, 1), g2 |-> SubSeq(s, 3, 4)]
    ELSE IF /\ Len(s) = 5
            /\ s[1] \in Digits /\ s[2] \in Digits /\ s[3] = ":"
            /\ s[4] \in Digits /\ s[5] \in Digits
    THEN [ok |-> TRUE, g1 |-> SubSeq(s, 1, 2), g2 |-> SubSeq(s, 4, 5)]
    ELSE [ok |-> FALSE, g1 |-> <<>>, g2 |-> <<>>]

\* as parseTime, the minute checked before the hour
parseTime_minutefirst(str) ==
    LET match == TimeMatch(ToStr(str))
        h == parseInt(match.g1)
        m == parseInt(match.g2)
    IN  IF ~match.ok THEN [ok |-> FALSE, err |-> "InvalidFormat", h |-> 0, m |-> 0]
        ELSE IF m < 0 \/ m > 59 THEN [ok |-> FALSE, err |-> "InvalidMinute", h |-> 0, m |-> 0]
        ELSE IF h < 0 \/ h > 23 THEN [ok |-> FALSE, err |-> "InvalidHour", h |-> 0, m |-> 0]
        ELSE [ok |-> TRUE, err |-> "", h |-> h, m |-> m]

parseTime(str) ==
    LET match == TimeMatch(ToStr(str))
        h == parseInt(match.g1)
        m == parseInt(match.g2)
    IN  IF ~match.ok THEN [ok |-> FALSE, err |-> "InvalidFormat", h |-> 0, m |-> 0]
        ELSE IF h < 0 \/ h > 23 THEN [ok |-> FALSE, err |-> "InvalidHour", h |-> 0, m |-> 0]
        ELSE IF m < 0 \/ m > 59 THEN [ok |-> FALSE, err |-> "InvalidMinute", h |-> 0, m |-> 0]
        ELSE [ok |-> TRUE, err |-> "", h |-> h, m |-> m]

\* as timeToCron, the matched digits substituted as written: `${match[2]} ${match[1]}`
timeToCron_padded(time, freq) ==
    LET match == TimeMatch(ToStr(time))
    IN  IF freq = "weekly"
        THEN match.g2 \o <<" ">> \o match.g1 \o <<" ","*"," ","*"," ","0">>
        ELSE match.g2 \o <<" ">> \o match.g1 \o <<" ","*"," ","*"," ","*">>

\* timeToCron(time, freq) for a time that parses; freq is "daily" or "weekly"
timeToCron(time, freq) ==
    LET t == parseTime(time)
    IN  IF freq = "weekly"
        THEN DecStr(t.m) \o <<" ">> \o DecStr(t.h) \o <<" ","*"," ","*"," ","0">>
        ELSE DecStr(t.m) \o <<" ">> \o DecStr(t.h) \o <<" ","*"," ","*"," ","*">>

\* ---------------------------------------------------------------------------
\* log-outcome.js: entry construction
\* ---------------------------------------------------------------------------

c_correction == <<"c","o","r","r","e","c","t","i","o","n">>

c_edit == <<"e","d","i","t">>

c_praise == <<"p","r","a","i","s","e">>

c_silence == <<"s","i","l","e","n","c","e">>

c_unknown == <<"u","n","k","n","o","w","n">>

QUALITY_TYPES == {c_correction, c_edit, c_praise, c_silence, c_unknown}

WhiteSpace == {" ", "\t", "\n"}

RECURSIVE TrimStart(_)
TrimStart(s) ==
    IF s # <<>> /\ s[1] \in WhiteSpace THEN TrimStart(Tail(s)) ELSE s

RECURSIVE TrimEnd(_)
TrimEnd(s) ==
    IF s # <<>> /\ s[Len(s)] \in WhiteSpace THEN TrimEnd(SubSeq(s, 1, Len(s) - 1)) ELSE s

\* String.prototype.trim
trim(s) == TrimEnd(TrimStart(s))

\* as toISOString, the seconds not padded to two digits
toISOString_unpadded(n) ==
    <<"2","0","2","6","-","0","1","-","0","1","T","0","0",":","0","0",":">>
        \o DecStr(n) \o <<".","0","0","0","Z">>

\* new Date().toISOString() at clock reading n (seconds of one fixed minute)
toISOString(n) ==
    <<"2","0","2","6","-","0","1","-","0","1","T","0","0",":","0","0",":">>
        \o (IF n < 10 THEN <<"0">> ELSE <<>>) \o DecStr(n) \o <<".","0","0","0","Z">>

NoEntry ==
    [timestamp |-> Undef, task |-> Undef, channel |-> Undef, outputQuality |-> Undef,
     delta |-> Undef, lesson |-> Undef, principleCandidate |-> Undef]

\* [...QUALITY_TYPES]: a Set is iterated in insertion order
QualityList == <<c_correction, c_edit, c_praise, c_silence, c_unknown>>

\* the message of an Error: its fixed text, the values it lists, the value it
\* quotes after "got:"
NoMsg == [text |-> "", valid |-> <<>>, got |-> <<>>]

\* as buildEntry, a correction not flagged unless the caller flags it
buildEntry_noauto(opts, now) ==
    IF ~Truthy(opts.task) \/ opts.task.t # "string" \/ trim(opts.task.s) = <<>>
    THEN [ok |-> FALSE, err |-> "MissingTask", entry |-> NoEntry,
          msg |-> [text |-> "--task is required and must be a non-empty string",
                   valid |-> <<>>, got |-> <<>>]]
    ELSE IF ~Truthy(opts.quality) \/ opts.quality.t # "string"
            \/ opts.quality.s \notin QUALITY_TYPES
    THEN [ok |-> FALSE, err |-> "InvalidQuality", entry |-> NoEntry,
          msg |-> [text |-> "--quality must be one of: (got: )",
                   valid |-> QualityList,
                   got |-> ToStr(Or(opts.quality, Str(<<>>)))]]
    ELSE [ok |-> TRUE, err |-> "",
          entry |-> [timestamp |-> Or(opts.timestamp, Str(toISOString(now))),
                     task |-> Str(trim(opts.task.s)),
                     channel |-> Or(opts.channel, Null),
                     outputQuality |-> opts.quality,
                     delta |-> Or(opts.delta, Null),
                     lesson |-> Or(opts.lesson, Null),
                     principleCandidate |->
                         Or(opts.principleCandidate, Bool(FALSE))],
          msg |-> NoMsg]

\* as buildEntry, the task stored as given
buildEntry_notrim(opts, now) ==
    IF ~Truthy(opts.task) \/ opts.task.t # "string" \/ trim(opts.task.s) = <<>>
    THEN [ok |-> FALSE, err |-> "MissingTask", entry |-> NoEntry,
          msg |-> [text |-> "--task is required and must be a non-empty string",
                   valid |-> <<>>, got |-> <<>>]]
    ELSE IF ~Truthy(opts.quality) \/ opts.quality.t # "string"
            \/ opts.quality.s \notin QUALITY_TYPES
    THEN [ok |-> FALSE, err |-> "InvalidQuality", entry |-> NoEntry,
          msg |-> [text |-> "--quality must be one of: (got: )",
                   valid |-> QualityList,
                   got |-> ToStr(Or(opts.quality, Str(<<>>)))]]
    ELSE [ok |-> TRUE, err |-> "",
          entry |-> [timestamp |-> Or(opts.timestamp, Str(toISOString(now))),
                     task |-> opts.task,
                     channel |-> Or(opts.channel, Null),
                     outputQuality |-> opts.quality,
                     delta |-> Or(opts.delta, Null),
                     lesson |-> Or(opts.lesson, Null),
                     principleCandidate |->
                         Or(opts.principleCandidate,
                            Bool(opts.quality = Str(c_correction)))],
          msg |-> NoMsg]

\* as buildEntry, any quality that is given accepted
buildEntry_anyquality(opts, now) ==
    IF ~Truthy(opts.task) \/ opts.task.t # "string" \/ trim(opts.task.s) = <<>>
    THEN [ok |-> FALSE, err |-> "MissingTask", entry |-> NoEntry,
          msg |-> [text |-> "--task is required and must be a non-empty string",
                   valid |-> <<>>, got |-> <<>>]]
    ELSE IF ~Truthy(opts.quality)
    THEN [ok |-> FALSE, err |-> "InvalidQuality", entry |-> NoEntry,
          msg |-> [text |-> "--quality must be one of: (got: )",
                   valid |-> QualityList,
                   got |-> ToStr(Or(opts.quality, Str(<<>>)))]]
    ELSE [ok |-> TRUE, err |-> "",
          entry |-> [timestamp |-> Or(opts.timestamp, Str(toISOString(now))),
                     task |-> Str(trim(opts.task.s)),
                     channel |-> Or(opts.channel, Null),
                     outputQuality |-> opts.quality,
                     delta |-> Or(opts.delta, Null),
                     lesson |-> Or(opts.lesson, Null),
                     principleCandidate |->
                         Or(opts.principleCandidate,
                            Bool(opts.quality = Str(c_correction)))],
          msg |-> NoMsg]

\* as buildEntry, only a missing channel, delta or lesson made null
buildEntry_keepempty(opts, now) ==
    IF ~Truthy(opts.task) \/ opts.task.t # "string" \/ trim(opts.task.s) = <<>>
    THEN [ok |-> FALSE, err |-> "MissingTask", entry |-> NoEntry,
          msg |-> [text |-> "--task is required and must be a non-empty string",
                   valid |-> <<>>, got |-> <<>>]]
    ELSE IF ~Truthy(opts.quality) \/ opts.quality.t # "string"
            \/ opts.quality.s \notin QUALITY_TYPES
    THEN [ok |-> FALSE, err |-> "InvalidQuality", entry |-> NoEntry,
          msg |-> [text |-> "--quality must be one of: (got: )",
                   valid |-> QualityList,
                   got |-> ToStr(Or(opts.quality, Str(<<>>)))]]
    ELSE [ok |-> TRUE, err |-> "",
          entry |-> [timestamp |-> Or(opts.timestamp, Str(toISOString(now))),
                     task |-> Str(trim(opts.task.s)),
                     channel |-> IF opts.channel.t = "undefined" THEN Null
                                 ELSE opts.channel,
                     outputQuality |-> opts.quality,
                     delta |-> Or(opts.delta, Null),
                     lesson |-> Or(opts.lesson, Null),
                     principleCandidate |->
                         Or(opts.principleCandidate,
                            Bool(opts.quality = Str(c_correction)))],
          msg |-> NoMsg]

\* as buildEntry, the quality checked before the task
buildEntry_qualityfirst(opts, now) ==
    IF ~Truthy(opts.quality) \/ opts.quality.t # "string"
       \/ opts.quality.s \notin QUALITY_TYPES
    THEN [ok |-> FALSE, err |-> "InvalidQuality", entry |-> NoEntry,
          msg |-> [text |-> "--quality must be one of: (got: )",
                   valid |-> QualityList,
                   got |-> ToStr(Or(opts.quality, Str(<<>>)))]]
    ELSE IF ~Truthy(opts.task) \/ opts.task.t # "string" \/ trim(opts.task.s) = <<>>
    THEN [ok |-> FALSE, err |-> "MissingTask", entry |-> NoEntry,
          msg |-> [text |-> "--task is required and must be a non-empty string",
                   valid |-> <<>>, got |-> <<>>]]
    ELSE [ok |-> TRUE, err |-> "",
          entry |-> [timestamp |-> Or(opts.timestamp, Str(toISOString(now))),
                     task |-> Str(trim(opts.task.s)),
                     channel |-> Or(opts.channel, Null),
                     outputQuality |-> opts.quality,
                     delta |-> Or(opts.delta, Null),
                     lesson |-> Or(opts.lesson, Null),
                     principleCandidate |->
                         Or(opts.principleCandidate,
                            Bool(opts.quality = Str(c_correction)))],
          msg |-> NoMsg]

buildEntry(opts, now) ==
    IF ~Truthy(opts.task) \/ opts.task.t # "string" \/ trim(opts.task.s) = <<>>
    THEN [ok |-> FALSE, err |-> "MissingTask", entry |-> NoEntry,
          msg |-> [text |-> "--task is required and must be a non-empty string",
                   valid |-> <<>>, got |-> <<>>]]
    ELSE IF ~Truthy(opts.quality) \/ opts.quality.t # "string"
            \/ opts.quality.s \notin QUALITY_TYPES
    THEN [ok |-> FALSE, err |-> "InvalidQuality", entry |-> NoEntry,
          msg |-> [text |-> "--quality must be one of: (got: )",
                   valid |-> QualityList,
                   got |-> ToStr(Or(opts.quality, Str(<<>>)))]]
    ELSE [ok |-> TRUE, err |-> "",
          entry |-> [timestamp |-> Or(opts.timestamp, Str(toISOString(now))),
                     task |-> Str(trim(opts.task.s)),
                     channel |-> Or(opts.channel, Null),
                     outputQuality |-> opts.quality,
                     delta |-> Or(opts.delta, Null),
                     lesson |-> Or(opts.lesson, Null),
                     principleCandidate |->
                         Or(opts.principleCandidate,
                            Bool(opts.quality = Str(c_correction)))],
          msg |-> NoMsg]

EntryKeys ==
    <<"timestamp", "task", "channel", "outputQuality", "delta", "lesson",
      "principleCandidate">>

\* as stringify, a member whose value is null left out as well
stringify_nonull(entry) ==
    [fmt |-> "json", text |-> "",
     fields |-> SelectSeq([i \in 1..Len(EntryKeys) |-> <<EntryKeys[i], entry[EntryKeys[i]]>>],
                          LAMBDA kv : kv[2].t \notin {"undefined", "null"})]

\* JSON.stringify(entry): the members in insertion order, a member whose
\* value is undefined left out; one line of text
stringify(entry) ==
    [fmt |-> "json", text |-> "",
     fields |-> SelectSeq([i \in 1..Len(EntryKeys) |-> <<EntryKeys[i], entry[EntryKeys[i]]>>],
                          LAMBDA kv : kv[2].t # "undefined")]

\* JSON.parse(line), read member by member: a member the text does not
\* hold reads as undefined
parse(line) ==
    [k \in {EntryKeys[i] : i \in 1..Len(EntryKeys)} |->
        IF \E i \in 1..Len(line.fields) : line.fields[i][1] = k
        THEN line.fields[CHOOSE i \in 1..Len(line.fields) : line.fields[i][1] = k][2]
        ELSE Undef]

\* path.join(root, rel)
join(root, rel) == root \o "/" \o rel

\* ---------------------------------------------------------------------------
\* Calls.  A call carries its options, the environment it reads (system time
\* zone, prompt files, clock) and its position in the code.  The records of a
\* call list their fields in the order TLC keeps them in.
\* ---------------------------------------------------------------------------

NoOpts ==
    [dryRun |-> Undef, skipCron |-> Undef, timezone |-> Undef, dailyTime |-> Undef,
     weeklyTime |-> Undef, task |-> Undef, quality |-> Undef, channel |-> Undef,
     delta |-> Undef, lesson |-> Undef, principleCandidate |-> Undef,
     timestamp |-> Undef]

c_UTC == <<"U","T","C">>

\* Intl.DateTimeFormat().resolvedOptions().timeZone, or 'UTC' when that throws
detectTimezone(env) == IF env.intl.ok THEN Str(env.intl.zone) ELSE Str(c_UTC)

\* fs.readFileSync(path.join(PROMPTS_DIR, name), 'utf8')
loadPrompt(env, name) == env.prompts[name]

NoPrompts == [k \in {} |-> [cron |-> <<>>, timezone |-> Undef, prompt |-> ""]]

NoReport ==
    [root |-> "", timezone |-> Undef, dailyTime |-> Undef, weeklyTime |-> Undef,
     dryRun |-> Undef, created |-> <<>>, existed |-> <<>>, prompts |-> NoPrompts]

\* the device under the workspace serves every call of fs
NoFault == [at |-> 0, torn |-> FALSE]

NewCall(op, opts, env) ==
    [err |-> "", freq |-> "", opts |-> opts, entry |-> NoEntry, msg |-> NoMsg, env |-> env,
     op |-> op, pc |-> "start", idx |-> 0, report |-> NoReport, ret |-> "", val |-> <<>>,
     argv |-> <<>>, code |-> -1, stderr |-> <<>>, core |-> "", fault |-> NoFault]

Finished(p) == p.pc \in {"done", "failed"}

Fail(p, e) == [p EXCEPT !.pc = "failed", !.err = e]

\* the loop heads of init: after directory i comes directory i+1, then the
\* files, then the prompts unless skipCron
\* as AfterDir, the prompts loaded once the directories are made, in place
\* of the files
AfterDir_prompts(p) ==
    IF p.idx < Len(dirs) THEN [p EXCEPT !.pc = "dir_check", !.idx = p.idx + 1]
    ELSE IF ~Truthy(Or(p.opts.skipCron, Bool(FALSE))) THEN [p EXCEPT !.pc = "load_daily"]
    ELSE [p EXCEPT !.pc = "file_check", !.idx = 1]

AfterDir(p) ==
    IF p.idx < Len(dirs) THEN [p EXCEPT !.pc = "dir_check", !.idx = p.idx + 1]
    ELSE [p EXCEPT !.pc = "file_check", !.idx = 1]

\* as AfterFile, skipCron not consulted: the prompts are always loaded
AfterFile_noskip(p) ==
    IF p.idx < Len(files) THEN [p EXCEPT !.pc = "file_check", !.idx = p.idx + 1]
    ELSE [p EXCEPT !.pc = "load_daily"]

AfterFile(p) ==
    IF p.idx < Len(files) THEN [p EXCEPT !.pc = "file_check", !.idx = p.idx + 1]
    ELSE IF ~Truthy(Or(p.opts.skipCron, Bool(FALSE))) THEN [p EXCEPT !.pc = "load_daily"]
    ELSE [p EXCEPT !.pc = "done"]

\* init, lines 166-190: resolve the options, validate both times, start the report
InitStart(fs, p) ==
    LET dryRun == Or(p.opts.dryRun, Bool(FALSE))
        timezone == Or(p.opts.timezone, detectTimezone(p.env))
        dailyTime == Or(p.opts.dailyTime, DEFAULTS.dailyTime)
        weeklyTime == Or(p.opts.weeklyTime, DEFAULTS.weeklyTime)
        report == [root |-> RootPath, timezone |-> timezone, dailyTime |-> dailyTime,
                   weeklyTime |-> weeklyTime, dryRun |-> dryRun, created |-> <<>>,
                   existed |-> <<>>, prompts |-> NoPrompts]
        daily == parseTime(dailyTime)
        weekly == parseTime(weeklyTime)
    IN  IF ~daily.ok THEN [fs |-> fs, p |-> Fail(p, daily.err)]
        ELSE IF ~weekly.ok THEN [fs |-> fs, p |-> Fail(p, weekly.err)]
        ELSE [fs |-> fs, p |-> [p EXCEPT !.pc = "dir_check", !.idx = 1, !.report = report]]

\* as InitDirCheck, every directory reported as created whether or not it exists
InitDirCheck_allcreated(fs, p) ==
    LET rel == dirs[p.idx]
    IN  IF existsSync(fs, rel) \/ Truthy(p.report.dryRun)
        THEN [fs |-> fs,
              p |-> AfterDir([p EXCEPT !.report.created = Append(@, rel \o "/")])]
        ELSE [fs |-> fs, p |-> [p EXCEPT !.pc = "dir_make"]]

\* as InitDirCheck, an existing directory reported without its trailing slash
InitDirCheck_noslash(fs, p) ==
    LET rel == dirs[p.idx]
    IN  IF existsSync(fs, rel)
        THEN [fs |-> fs,
              p |-> AfterDir([p EXCEPT !.report.existed = Append(@, rel)])]
        ELSE IF Truthy(p.report.dryRun)
        THEN [fs |-> fs,
              p |-> AfterDir([p EXCEPT !.report.created = Append(@, rel \o "/")])]
        ELSE [fs |-> fs, p |-> [p EXCEPT !.pc = "dir_make"]]

\* init, lines 200-210, the existence check of one directory
InitDirCheck(fs, p) ==
    LET rel == dirs[p.idx]
    IN  IF existsSync(fs, rel)
        THEN [fs |-> fs,
              p |-> AfterDir([p EXCEPT !.report.existed = Append(@, rel \o "/")])]
        ELSE IF Truthy(p.report.dryRun)
        THEN [fs |-> fs,
              p |-> AfterDir([p EXCEPT !.report.created = Append(@, rel \o "/")])]
        ELSE [fs |-> fs, p |-> [p EXCEPT !.pc = "dir_make"]]

\* a creation of fs on a device that fails it (EIO, ENOSPC, EACCES): creation
\* n of the layout throws although the tree allows it, and leaves the tree
\* as it was or, the failure striking part-way, as far as the call had come
\* (a directory of the layout has its parent: mkdirSync makes it or nothing)
Device(fs, p, n, r, torn) ==
    IF p.fault.at = n /\ r.ok
    THEN [ok |-> FALSE, err |-> "EIO", fs |-> IF p.fault.torn THEN torn ELSE fs]
    ELSE r

\* writeFileSync stopped part-way: flag 'w' has created the file, the
\* content is not in it
WriteTorn(fs, p) == [fs EXCEPT ![p] = File(<<>>)]

\* init, lines 207-208, the creation of one directory
InitDirMake(fs, p) ==
    LET rel == dirs[p.idx]
        r == Device(fs, p, p.idx, mkdirSync(fs, rel), fs)
    IN  IF r.ok
        THEN [fs |-> r.fs,
              p |-> AfterDir([p EXCEPT !.report.created = Append(@, rel \o "/")])]
        ELSE [fs |-> r.fs, p |-> Fail(p, r.err)]

\* as InitFileCheck, without the existence check: the default content is
\* written over whatever is there
InitFileCheck_overwrite(fs, p) ==
    LET rel == files[p.idx][1]
    IN  IF Truthy(p.report.dryRun)
        THEN [fs |-> fs, p |-> AfterFile([p EXCEPT !.report.created = Append(@, rel)])]
        ELSE [fs |-> fs, p |-> [p EXCEPT !.pc = "file_write"]]

\* as InitFileCheck, the dry-run flag not consulted before the write
InitFileCheck_nodry(fs, p) ==
    LET rel == files[p.idx][1]
    IN  IF existsSync(fs, rel)
        THEN [fs |-> fs, p |-> AfterFile([p EXCEPT !.report.existed = Append(@, rel)])]
        ELSE [fs |-> fs, p |-> [p EXCEPT !.pc = "file_write"]]

\* as InitFileCheck, a dry run listing every file as created without looking
InitFileCheck_dryall(fs, p) ==
    LET rel == files[p.idx][1]
    IN  IF Truthy(p.report.dryRun)
        THEN [fs |-> fs, p |-> AfterFile([p EXCEPT !.report.created = Append(@, rel)])]
        ELSE IF existsSync(fs, rel)
        THEN [fs |-> fs, p |-> AfterFile([p EXCEPT !.report.existed = Append(@, rel)])]
        ELSE [fs |-> fs, p |-> [p EXCEPT !.pc = "file_write"]]

\* as InitFileCheck, a file that exists passed over without a word
InitFileCheck_unlisted(fs, p) ==
    LET rel == files[p.idx][1]
    IN  IF existsSync(fs, rel)
        THEN [fs |-> fs, p |-> AfterFile(p)]
        ELSE IF Truthy(p.report.dryRun)
        THEN [fs |-> fs, p |-> AfterFile([p EXCEPT !.report.created = Append(@, rel)])]
        ELSE [fs |-> fs, p |-> [p EXCEPT !.pc = "file_write"]]

\* as InitFileCheck, the outcome log started anew by every non-dry run
InitFileCheck_logreset(fs, p) ==
    LET rel == files[p.idx][1]
    IN  IF existsSync(fs, rel) /\ rel # OUTCOMES
        THEN [fs |-> fs, p |-> AfterFile([p EXCEPT !.report.existed = Append(@, rel)])]
        ELSE IF Truthy(p.report.dryRun)
        THEN [fs |-> fs, p |-> AfterFile([p EXCEPT !.report.created = Append(@, rel)])]
        ELSE [fs |-> fs, p |-> [p EXCEPT !.pc = "file_write"]]

\* init, lines 220-230, the existence check of one file
InitFileCheck(fs, p) ==
    LET rel == files[p.idx][1]
    IN  IF existsSync(fs, rel)
        THEN [fs |-> fs, p |-> AfterFile([p EXCEPT !.report.existed = Append(@, rel)])]
        ELSE IF Truthy(p.report.dryRun)
        THEN [fs |-> fs, p |-> AfterFile([p EXCEPT !.report.created = Append(@, rel)])]
        ELSE [fs |-> fs, p |-> [p EXCEPT !.pc = "file_write"]]

\* as InitFileWrite, every file created empty
InitFileWrite_blank(fs, p) ==
    LET rel == files[p.idx][1]
        r == Device(fs, p, Len(dirs) + p.idx, writeFileSync(fs, rel, <<>>), WriteTorn(fs, rel))
    IN  IF r.ok
        THEN [fs |-> r.fs, p |-> AfterFile([p EXCEPT !.report.created = Append(@, rel)])]
        ELSE [fs |-> r.fs, p |-> Fail(p, r.err)]

\* init, lines 227-228, the write of one file's default content
InitFileWrite(fs, p) ==
    LET rel == files[p.idx][1]
        r == Device(fs, p, Len(dirs) + p.idx, writeFileSync(fs, rel, files[p.idx][2]),
                    WriteTorn(fs, rel))
    IN  IF r.ok
        THEN [fs |-> r.fs, p |-> AfterFile([p EXCEPT !.report.created = Append(@, rel)])]
        ELSE [fs |-> r.fs, p |-> Fail(p, r.err)]

\* as InitLoadDaily, a daily prompt that cannot be read taken as empty text
InitLoadDaily_tolerant(fs, p) == [fs |-> fs, p |-> [p EXCEPT !.pc = "load_weekly"]]

\* init, line 235
InitLoadDaily(fs, p) ==
    IF loadPrompt(p.env, "daily").ok THEN [fs |-> fs, p |-> [p EXCEPT !.pc = "load_weekly"]]
    ELSE [fs |-> fs, p |-> Fail(p, "PromptUnavailable")]

\* as InitLoadWeekly, both cron expressions made from the daily time
InitLoadWeekly_dailytime(fs, p) ==
    IF loadPrompt(p.env, "weekly").ok
    THEN [fs |-> fs,
          p |-> [p EXCEPT !.pc = "done",
                          !.report.prompts =
                              [k \in {"daily", "weekly"} |->
                                  [cron |-> timeToCron(p.report.dailyTime, k),
                                   timezone |-> p.report.timezone,
                                   prompt |-> loadPrompt(p.env, k).text]]]]
    ELSE [fs |-> fs, p |-> Fail(p, "PromptUnavailable")]

\* init, lines 236-249
InitLoadWeekly(fs, p) ==
    IF loadPrompt(p.env, "weekly").ok
    THEN [fs |-> fs,
          p |-> [p EXCEPT !.pc = "done",
                          !.report.prompts =
                              [k \in {"daily", "weekly"} |->
                                  [cron |-> timeToCron(IF k = "daily" THEN p.report.dailyTime
                                                       ELSE p.report.weeklyTime, k),
                                   timezone |-> p.report.timezone,
                                   prompt |-> loadPrompt(p.env, k).text]]]]
    ELSE [fs |-> fs, p |-> Fail(p, "PromptUnavailable")]

\* as LogStart, the append attempted whatever buildEntry says
LogStart_novalidate(fs, p) ==
    LET b == buildEntry(p.opts, p.env.now)
    IN  [fs |-> fs, p |-> [p EXCEPT !.pc = "log_check", !.entry = b.entry]]

\* log, line 94
LogStart(fs, p) ==
    LET b == buildEntry(p.opts, p.env.now)
    IN  IF b.ok THEN [fs |-> fs, p |-> [p EXCEPT !.pc = "log_check", !.entry = b.entry]]
        ELSE [fs |-> fs, p |-> Fail(p, b.err)]

\* appendEntry, lines 74-78
LogCheck(fs, p) ==
    IF existsSync(fs, DEFAULT_LOG_DIR) THEN [fs |-> fs, p |-> [p EXCEPT !.pc = "log_append"]]
    ELSE [fs |-> fs, p |-> [p EXCEPT !.pc = "log_mkdir"]]

\* as LogMkdir, the whole directory layout made
LogMkdir_layout(fs, p) ==
    LET r == mkdirSync(fs, dirs[3])
    IN  IF r.ok THEN [fs |-> r.fs, p |-> [p EXCEPT !.pc = "log_append"]]
        ELSE [fs |-> fs, p |-> Fail(p, r.err)]

\* appendEntry, line 79
LogMkdir(fs, p) ==
    LET r == mkdirSync(fs, DEFAULT_LOG_DIR)
    IN  IF r.ok THEN [fs |-> r.fs, p |-> [p EXCEPT !.pc = "log_append"]]
        ELSE [fs |-> fs, p |-> Fail(p, r.err)]

\* as LogAppend, the line written in two writes, the text and then the
\* newline: the second write ends the line only when nothing came in between
LogAppend_split(fs, p) ==
    LET part == [fmt |-> "part", text |-> "", fields |-> stringify(p.entry).fields]
        c == fs[OUTCOMES].content
        r == IF p.idx = 0 THEN appendFileSync(fs, OUTCOMES, <<part>>)
             ELSE IF c # <<>> /\ c[Len(c)] = part
             THEN writeFileSync(fs, OUTCOMES,
                                SubSeq(c, 1, Len(c) - 1) \o <<stringify(p.entry)>>)
             ELSE appendFileSync(fs, OUTCOMES, <<TextLine("")>>)
    IN  IF ~r.ok THEN [fs |-> fs, p |-> Fail(p, r.err)]
        ELSE IF p.idx = 0 THEN [fs |-> r.fs, p |-> [p EXCEPT !.idx = 1]]
        ELSE [fs |-> r.fs, p |-> [p EXCEPT !.pc = "done", !.ret = join(RootPath, OUTCOMES)]]

\* appendEntry, lines 82-83
LogAppend(fs, p) ==
    LET r == appendFileSync(fs, OUTCOMES, <<stringify(p.entry)>>)
    IN  IF r.ok
        THEN [fs |-> r.fs, p |-> [p EXCEPT !.pc = "done", !.ret = join(RootPath, OUTCOMES)]]
        ELSE [fs |-> fs, p |-> Fail(p, r.err)]

\* buildEntry(opts), called on its own
BuildEntryCall(fs, p) ==
    LET b == buildEntry(p.opts, p.env.now)
    IN  IF b.ok THEN [fs |-> fs, p |-> [p EXCEPT !.pc = "done", !.entry = b.entry]]
        ELSE [fs |-> fs, p |-> [Fail(p, b.err) EXCEPT !.msg = b.msg]]

\* parseTime(str), called on its own; str is passed as opts.dailyTime
ParseTimeCall(fs, p) ==
    LET t == parseTime(p.opts.dailyTime)
    IN  IF t.ok THEN [fs |-> fs, p |-> [p EXCEPT !.pc = "done", !.val = <<t.h, t.m>>]]
        ELSE [fs |-> fs, p |-> Fail(p, t.err)]

\* timeToCron(time, freq), called on its own; time is passed as opts.dailyTime.
\* The throw of parseTime at line 130 leaves the function.
TimeToCronCall(fs, p) ==
    IF parseTime(p.opts.dailyTime).ok
    THEN [fs |-> fs, p |-> [p EXCEPT !.pc = "done", !.val = timeToCron(p.opts.dailyTime, p.freq)]]
    ELSE [fs |-> fs, p |-> Fail(p, parseTime(p.opts.dailyTime).err)]

\* one step of a call that has not finished
Step(fs, p) ==
    CASE p.pc = "start" /\ p.op = "init" -> InitStart(fs, p)
      [] p.pc = "start" /\ p.op = "buildEntry" -> BuildEntryCall(fs, p)
      [] p.pc = "start" /\ p.op = "parseTime" -> ParseTimeCall(fs, p)
      [] p.pc = "start" /\ p.op = "timeToCron" -> TimeToCronCall(fs, p)
      [] p.pc = "start" /\ p.op = "log" -> LogStart(fs, p)
      [] p.pc = "start" /\ p.op = "appendEntry" -> LogCheck(fs, p)
      [] p.pc = "dir_check" -> InitDirCheck(fs, p)
      [] p.pc = "dir_make" -> InitDirMake(fs, p)
      [] p.pc = "file_check" -> InitFileCheck(fs, p)
      [] p.pc = "file_write" -> InitFileWrite(fs, p)
      [] p.pc = "load_daily" -> InitLoadDaily(fs, p)
      [] p.pc = "load_weekly" -> InitLoadWeekly(fs, p)
      [] p.pc = "log_check" -> LogCheck(fs, p)
      [] p.pc = "log_mkdir" -> LogMkdir(fs, p)
      [] p.pc = "log_append" -> LogAppend(fs, p)

RECURSIVE Run(_, _)
\* a call run from its current position to its return or throw, alone
Run(fs, p) ==
    IF Finished(p) THEN [fs |-> fs, p |-> p]
    ELSE LET r == Step(fs, p) IN Run(r.fs, r.p)

\* ---------------------------------------------------------------------------
\* The command-line adapters: parseArgs and the main block of each script.
\* An argument is a string; the arguments a process is given are p.argv.  The
\* process ends with p.code; p.stderr holds the lines it wrote to the error
\* stream and p.core how the call of init or log ended, "" when none was made.
\* What the adapters write to the output stream is not kept.
\* ---------------------------------------------------------------------------

\* the options the two parseArgs know, by the name of what each sets
FLAGS ==
    [dry_run |->
        <<"-", "-", "d", "r", "y", "-", "r", "u", "n">>,
     skip_cron |->
        <<"-", "-", "s", "k", "i", "p", "-", "c", "r", "o", "n">>,
     timezone |->
        <<"-", "-", "t", "i", "m", "e", "z", "o", "n", "e">>,
     daily_time |->
        <<"-", "-", "d", "a", "i", "l", "y", "-", "t", "i", "m", "e">>,
     weekly_time |->
        <<"-", "-", "w", "e", "e", "k", "l", "y", "-", "t", "i", "m", "e">>,
     help |->
        <<"-", "-", "h", "e", "l", "p">>,
     h |->
        <<"-", "h">>,
     task |->
        <<"-", "-", "t", "a", "s", "k">>,
     quality |->
        <<"-", "-", "q", "u", "a", "l", "i", "t", "y">>,
     delta |->
        <<"-", "-", "d", "e", "l", "t", "a">>,
     lesson |->
        <<"-", "-", "l", "e", "s", "s", "o", "n">>,
     channel |->
        <<"-", "-", "c", "h", "a", "n", "n", "e", "l">>,
     principle_candidate |->
        <<"-", "-", "p", "r", "i", "n", "c", "i", "p", "l", "e", "-", "c", "a", "n", "d", "i", "d", "a", "t", "e">>]

\* the number of line breaks in a string
LineBreaks(s) == Cardinality({i \in 1..Len(s) : s[i] = "\n"})

\* console.error(text + arg): one line, and one more for each line break of arg
ConsoleError(text, arg) == [j \in 1..(1 + LineBreaks(arg)) |-> [text |-> text, arg |-> arg]]

\* what Node writes for an exception nothing catches: the throwing source
\* line and a caret under it, the error's name and message, the stack frames
UncaughtException(e) ==
    << [text |-> "source line", arg |-> <<>>], [text |-> "caret", arg |-> <<>>],
       [text |-> e, arg |-> <<>>], [text |-> "stack frames", arg |-> <<>>] >>

\* args[++i]: undefined beyond the last argument
ArgAt(args, i) == IF i <= Len(args) THEN Str(args[i]) ELSE Undef

\* init-reflector.js, lines 280-304: the switch on argument i.  i is the next
\* argument to look at; code is the status of process.exit, -1 when the loop
\* goes on
InitSwitch(args, i, opts) ==
    CASE args[i] = FLAGS.dry_run ->
            [opts |-> [opts EXCEPT !.dryRun = Bool(TRUE)], i |-> i + 1, code |-> -1,
             stderr |-> <<>>]
      [] args[i] = FLAGS.skip_cron ->
            [opts |-> [opts EXCEPT !.skipCron = Bool(TRUE)], i |-> i + 1, code |-> -1,
             stderr |-> <<>>]
      [] args[i] = FLAGS.timezone ->
            [opts |-> [opts EXCEPT !.timezone = ArgAt(args, i + 1)], i |-> i + 2,
             code |-> -1, stderr |-> <<>>]
      [] args[i] = FLAGS.daily_time ->
            [opts |-> [opts EXCEPT !.dailyTime = ArgAt(args, i + 1)], i |-> i + 2,
             code |-> -1, stderr |-> <<>>]
      [] args[i] = FLAGS.weekly_time ->
            [opts |-> [opts EXCEPT !.weeklyTime = ArgAt(args, i + 1)], i |-> i + 2,
             code |-> -1, stderr |-> <<>>]
      [] args[i] \in {FLAGS.help, FLAGS.h} -> [opts |-> opts, i |-> i, code |-> 0, stderr |-> <<>>]
      [] OTHER -> [opts |-> opts, i |-> i,
                   code |-> 1, stderr |-> ConsoleError("Unknown option: ", args[i])]

RECURSIVE InitParseArgs(_, _, _)
\* parseArgs of init-reflector.js from argument i on: the options, or the
\* status the process exits with inside the loop
InitParseArgs(args, i, opts) ==
    IF i > Len(args) THEN [opts |-> opts, i |-> i, code |-> -1, stderr |-> <<>>]
    ELSE LET a == InitSwitch(args, i, opts)
         IN  IF a.code # -1 THEN a ELSE InitParseArgs(args, a.i, a.opts)

\* log-outcome.js, lines 108-135: the switch on argument i
LogSwitch(args, i, opts) ==
    CASE args[i] = FLAGS.task ->
            [opts |-> [opts EXCEPT !.task = ArgAt(args, i + 1)], i |-> i + 2,
             code |-> -1, stderr |-> <<>>]
      [] args[i] = FLAGS.quality ->
            [opts |-> [opts EXCEPT !.quality = ArgAt(args, i + 1)], i |-> i + 2,
             code |-> -1, stderr |-> <<>>]
      [] args[i] = FLAGS.delta ->
            [opts |-> [opts EXCEPT !.delta = ArgAt(args, i + 1)], i |-> i + 2,
             code |-> -1, stderr |-> <<>>]
      [] args[i] = FLAGS.lesson ->
            [opts |-> [opts EXCEPT !.lesson = ArgAt(args, i + 1)], i |-> i + 2,
             code |-> -1, stderr |-> <<>>]
      [] args[i] = FLAGS.channel ->
            [opts |-> [opts EXCEPT !.channel = ArgAt(args, i + 1)], i |-> i + 2,
             code |-> -1, stderr |-> <<>>]
      [] args[i] = FLAGS.principle_candidate ->
            [opts |-> [opts EXCEPT !.principleCandidate = Bool(TRUE)], i |-> i + 1,
             code |-> -1, stderr |-> <<>>]
      [] args[i] \in {FLAGS.help, FLAGS.h} -> [opts |-> opts, i |-> i, code |-> 0, stderr |-> <<>>]
      [] OTHER -> [opts |-> opts, i |-> i,
                   code |-> 1, stderr |-> ConsoleError("Unknown option: ", args[i])]

RECURSIVE LogParseArgs(_, _, _, _)
\* parseArgs of log-outcome.js from argument i on; channel is OPENCLAW_CHANNEL,
\* read after the loop (lines 139-141)
LogParseArgs(args, i, opts, channel) ==
    IF i > Len(args)
    THEN [opts |-> IF ~Truthy(opts.channel) /\ Truthy(channel)
                   THEN [opts EXCEPT !.channel = channel] ELSE opts,
          i |-> i, code |-> -1, stderr |-> <<>>]
    ELSE LET a == LogSwitch(args, i, opts)
         IN  IF a.code # -1 THEN a ELSE LogParseArgs(args, a.i, a.opts, channel)

\* the process has ended with status code, having written lines to stderr
Exit(p, code, lines) == [p EXCEPT !.pc = "exited", !.code = code, !.stderr = lines]

\* what a call made by an adapter leaves in the adapter's record
Core(p, opts, c) ==
    [p EXCEPT !.opts = opts, !.core = c.pc, !.err = c.err, !.report = c.report,
              !.entry = c.entry]

\* the end of init-reflector: r is init as it ended.  Nothing catches what
\* init throws
InitEnd(p, opts, r) ==
    IF r.p.pc = "done" THEN [fs |-> r.fs, p |-> Exit(Core(p, opts, r.p), 0, <<>>)]
    ELSE [fs |-> r.fs, p |-> Exit(Core(p, opts, r.p), 1, UncaughtException(r.p.err))]

\* init-reflector after parseArgs: a is what parseArgs came to
InitParsed(fs, p, a) ==
    IF a.code # -1 THEN [fs |-> fs, p |-> Exit(p, a.code, a.stderr)]
    ELSE InitEnd(p, a.opts, Run(fs, NewCall("init", a.opts, p.env)))

\* init-reflector.js, lines 309-311: init(parseArgs())
InitMain(fs, p) == InitParsed(fs, p, InitParseArgs(p.argv, 1, NoOpts))

\* the end of log-outcome: r is log as it ended.  An error is caught and
\* reported in one console.error; the text of the invalid-quality message
\* holds the quality given
LogEnd(p, opts, r) ==
    IF r.p.pc = "done" THEN [fs |-> r.fs, p |-> Exit(Core(p, opts, r.p), 0, <<>>)]
    ELSE [fs |-> r.fs,
          p |-> Exit(Core(p, opts, r.p), 1,
                     ConsoleError("Error: ", IF r.p.err = "InvalidQuality"
                                            THEN ToStr(Or(opts.quality, Str(<<>>)))
                                            ELSE <<>>))]

\* log-outcome after parseArgs: a is what parseArgs came to
LogParsed(fs, p, a) ==
    IF a.code # -1 THEN [fs |-> fs, p |-> Exit(p, a.code, a.stderr)]
    ELSE LogEnd(p, a.opts, Run(fs, NewCall("log", a.opts, p.env)))

\* log-outcome.js, lines 146-157: log(parseArgs()) in a try block
LogMain(fs, p) == LogParsed(fs, p, LogParseArgs(p.argv, 1, NoOpts, p.env.channel))

\* the run of an adapter, from its start to the end of the process
Main(fs, p) == IF p.op = "init-reflector" THEN InitMain(fs, p) ELSE LogMain(fs, p)

\* ---------------------------------------------------------------------------
\* State
\* ---------------------------------------------------------------------------

VARIABLES
    fs,      \* the workspace: path -> [kind, content]
    last,    \* Spec: the call made last, as it ended, and the workspace before it
    ncalls,  \* Spec: the number of calls made
    rerun,   \* Spec: the last call repeated the call before it, inputs unchanged
    fresh,   \* the root was an empty directory before the first call
    log0,    \* the text of the outcome log before the first call
    logged,  \* the lines the successful appends wrote, in the order written
    procs    \* SpecConc: the call each process is in

vars == <<fs, last, ncalls, rerun, fresh, log0, logged, procs>>

\* ---------------------------------------------------------------------------
\* Inputs
\* ---------------------------------------------------------------------------

c_zone == <<"E","u","r","o","p","e","/","O","s","l","o">>

PromptOk(k) ==
    [ok |-> TRUE,
     text |-> IF k = "daily" THEN "Reflector daily review" ELSE "Reflector weekly refinement"]

PromptMissing == [ok |-> FALSE, text |-> ""]

PromptsAll == [k \in {"daily", "weekly"} |-> PromptOk(k)]

PromptCases ==
    {PromptsAll,
     [PromptsAll EXCEPT !["daily"] = PromptMissing],
     [PromptsAll EXCEPT !["weekly"] = PromptMissing]}

\* the clock, the time zone Intl reports, the prompt files and OPENCLAW_CHANNEL
Env(prompts, now) ==
    [channel |-> Undef, now |-> now, intl |-> [ok |-> TRUE, zone |-> c_zone],
     prompts |-> prompts]

NoEnv == Env(PromptsAll, 0)

\* (dailyTime, weeklyTime) as the caller gives them
TimeCases ==
    {<<Undef, Undef>>,
     <<Str(<<>>), Undef>>,
     <<Str(<<"2","5",":","0","0">>), Str(<<"2","3",":","5","9">>)>>,
     <<Str(<<"9",":","0","5">>), Str(<<"1","2",":","6","0">>)>>,
     <<Str(<<"a","b","c">>), Str(<<"1","2">>)>>}

InitOptions ==
    {[NoOpts EXCEPT !.dryRun = d, !.skipCron = k, !.dailyTime = t[1], !.weeklyTime = t[2]] :
        d \in {Undef, Bool(TRUE)}, k \in {Undef, Bool(TRUE)}, t \in TimeCases}

\* the prompt files a call finds; a call that has skipCron set or throws on
\* its times never looks
PromptCasesFor(o) ==
    IF \/ Truthy(o.skipCron)
       \/ ~parseTime(Or(o.dailyTime, DEFAULTS.dailyTime)).ok
       \/ ~parseTime(Or(o.weeklyTime, DEFAULTS.weeklyTime)).ok
    THEN {PromptsAll} ELSE PromptCases

TaskCases == {Undef, Str(<<" ", "\t">>), Str(<<" ", "f", "i", "x", " ">>)}

QualityCases == {Str(<<"g","o","o","d">>), Str(c_correction), Str(c_praise)}

LogOptions == {[NoOpts EXCEPT !.task = t, !.quality = q] : t \in TaskCases, q \in QualityCases}

ValidLogOptions == {o \in LogOptions : buildEntry(o, 0).ok}

customText == << TextLine("# My Custom Principles") >>

\* what a path may hold before the program first runs: nothing, a directory,
\* or a file of the user's (the default contents come from init)
NodeCases(p) ==
    CASE p = ROOT -> {Absent, Dir, File(customText)}
      [] p \in {dirs[1], dirs[2], dirs[3]} -> {Absent, Dir, File(customText)}
      [] p = PRINCIPLES -> {Absent, File(customText)}
      [] p = OUTCOMES -> {Absent, Dir, File(customText)}
      [] p = HISTORY -> {Absent, File(customText)}

\* a tree: what exists lies in a directory
WellFormed(f) == \A p \in Paths \ {ROOT} : f[p].kind # "absent" => f[Parent(p)].kind = "dir"

Tree(r, m, mr, ws, pr, out, hist) ==
    [p \in Paths |->
        CASE p = ROOT -> r [] p = dirs[1] -> m [] p = dirs[2] -> mr [] p = dirs[3] -> ws
          [] p = PRINCIPLES -> pr [] p = OUTCOMES -> out [] p = HISTORY -> hist]

Workspaces ==
    {f \in {Tree(r, m, mr, ws, pr, out, hist) :
                r \in NodeCases(ROOT), m \in NodeCases(dirs[1]), mr \in NodeCases(dirs[2]),
                ws \in NodeCases(dirs[3]), pr \in NodeCases(PRINCIPLES),
                out \in NodeCases(OUTCOMES), hist \in NodeCases(HISTORY)} :
        WellFormed(f)}

Procs == {1, 2}

Idle == [NewCall("none", NoOpts, NoEnv) EXCEPT !.pc = "idle"]

Lines(f) == Len(f[OUTCOMES].content)

\* ---------------------------------------------------------------------------
\* Spec: calls made one after the other, each run to its end
\* ---------------------------------------------------------------------------

EmptyRoot(f) == f[ROOT].kind = "dir" /\ \A p \in Paths \ {ROOT} : f[p].kind = "absent"

\* the line a step wrote to the outcome log: the append ends the call
Written(before, after) ==
    IF \/ before.op \in {"log", "appendEntry"} /\ ~Finished(before) /\ after.pc = "done"
       \/ before.op = "log-outcome" /\ before.pc = "start" /\ after.core = "done"
    THEN <<stringify(after.entry)>> ELSE <<>>

Init ==
    /\ fs \in Workspaces
    /\ last = [call |-> Idle, pre |-> fs]
    /\ ncalls = 0
    /\ rerun = FALSE
    /\ fresh = EmptyRoot(fs)
    /\ log0 = fs[OUTCOMES].content
    /\ logged = <<>>
    /\ procs = [i \in Procs |-> Idle]

Call(p0) ==
    /\ ncalls < MaxCalls
    /\ LET r == Run(fs, p0)
       IN  /\ fs' = r.fs
           /\ last' = [call |-> r.p, pre |-> fs]
           /\ logged' = logged \o Written(p0, r.p)
    /\ ncalls' = ncalls + 1
    /\ rerun' = (ncalls > 0 /\ last.call.op = p0.op /\ last.call.opts = p0.opts
                             /\ last.call.env = p0.env)
    /\ UNCHANGED <<fresh, log0, procs>>

\* init(opts)
InitCall ==
    \E o \in InitOptions : \E pr \in PromptCasesFor(o) : Call(NewCall("init", o, Env(pr, 0)))

\* log(opts)
LogCall ==
    /\ Lines(fs) < MaxLines
    /\ \E o \in LogOptions : Call(NewCall("log", o, Env(PromptsAll, 0)))

\* appendEntry(buildEntry(opts), {root})
AppendCall ==
    /\ Lines(fs) < MaxLines
    /\ \E o \in ValidLogOptions :
          Call([NewCall("appendEntry", o, Env(PromptsAll, 0))
                   EXCEPT !.entry = buildEntry(o, 0).entry])

Next == InitCall \/ LogCall \/ AppendCall

Spec == Init /\ [][Next]_vars

\* ---------------------------------------------------------------------------
\* SpecConc: each process makes one call; the filesystem calls of the two
\* calls interleave in any order
\* ---------------------------------------------------------------------------

\* roots holding part of the layout as init and log leave it
ConcWorkspaces ==
    {f \in {Tree(Dir, m, mr, mr, pr, out, out) :
                m \in {Absent, Dir}, mr \in {Absent, Dir},
                pr \in {Absent, File(principlesTemplate)}, out \in {Absent, File(<<>>)}} :
        WellFormed(f)}

ConcInitOptions ==
    {o \in InitOptions : Truthy(o.skipCron) /\ o.dailyTime.t = "undefined"}
        \cup {o \in InitOptions : /\ ~Truthy(o.skipCron) /\ ~Truthy(o.dryRun)
                                   /\ o.weeklyTime.s \in {<<>>, <<"1","2">>}}

ConcLogOptions ==
    {o \in LogOptions : /\ o.task.t = "string"
                        /\ o.quality.t = "string" /\ o.quality.s \in {c_correction}}

InitConc ==
    /\ fs \in ConcWorkspaces
    /\ last = [call |-> Idle, pre |-> fs]
    /\ ncalls = 0
    /\ rerun = FALSE
    /\ fresh = EmptyRoot(fs)
    /\ log0 = fs[OUTCOMES].content
    /\ logged = <<>>
    /\ procs = [i \in Procs |-> Idle]

\* process i enters init(opts)
BeginInit(i) ==
    /\ procs[i].pc = "idle"
    /\ \E o \in ConcInitOptions :
          procs' = [procs EXCEPT ![i] = NewCall("init", o, Env(PromptsAll, i))]
    /\ UNCHANGED <<fs, last, ncalls, rerun, fresh, log0, logged>>

\* process i enters log(opts); its clock reads i
BeginLog(i) ==
    /\ procs[i].pc = "idle"
    /\ \E o \in ConcLogOptions :
          procs' = [procs EXCEPT ![i] = NewCall("log", o, Env(PromptsAll, i))]
    /\ UNCHANGED <<fs, last, ncalls, rerun, fresh, log0, logged>>

\* process i runs up to and including its next filesystem call
StepCall(i) ==
    /\ procs[i].pc \notin {"idle", "done", "failed"}
    /\ LET r == Step(fs, procs[i])
       IN  /\ fs' = r.fs
           /\ procs' = [procs EXCEPT ![i] = r.p]
           /\ logged' = logged \o Written(procs[i], r.p)
    /\ UNCHANGED <<last, ncalls, rerun, fresh, log0>>

NextConc == \E i \in Procs : BeginInit(i) \/ BeginLog(i) \/ StepCall(i)

SpecConc == InitConc /\ [][NextConc]_vars

\* ---------------------------------------------------------------------------
\* SpecFn: one call of a pure function, buildEntry(opts), parseTime(str) or
\* timeToCron(time, freq), on an input drawn from the sets below
\* ---------------------------------------------------------------------------

c_iso == <<"2","0","2","6","-","0","1","-","1","5","T","1","0",":","0","0",":","0","0","Z">>

c_yesterday == <<"y","e","s","t","e","r","d","a","y">>

TaskValues ==
    {Undef, Null, Bool(TRUE), Str(<<>>), Str(<<" ", "\t">>), Str(<<"\n">>),
     Str(<<" ", "f", "i", "x", " ">>), Str(<<"a", " ", "b", "\n">>), Str(<<"a">>)}

QualityValues ==
    {Str(q) : q \in QUALITY_TYPES}
        \cup {Undef, Null, Bool(TRUE), Bool(FALSE), Str(<<>>), Str(<<"g","o","o","d">>),
              Str(<<"E","d","i","t">>), Str(<<" ","e","d","i","t">>)}

\* what a caller gives for an optional text field named by its first letter
TextValues(c) == {Undef, Null, Str(<<>>), Str(<<c>>)}

EntryOptions ==
    {[NoOpts EXCEPT !.task = t, !.quality = q, !.channel = fld[1], !.delta = fld[2],
                    !.lesson = fld[3], !.principleCandidate = pc, !.timestamp = ts] :
        t \in TaskValues, q \in QualityValues,
        fld \in TextValues("c") \X (TextValues("d") \ {Null}) \X (TextValues("l") \ {Null}),
        pc \in {Undef, Bool(TRUE), Bool(FALSE)},
        ts \in {Undef, Str(c_iso), Str(c_yesterday)}}

\* every string of one or two digits, a colon and two digits
ClockStrings ==
    {<<a, ":", c, d>> : a \in Digits, c \in Digits, d \in Digits}
        \cup {<<a, b, ":", c, d>> : a \in Digits, b \in Digits, c \in Digits, d \in Digits}

OtherStrings ==
    {<<>>, <<"a","b","c">>, <<"1","2">>, <<"3",":","5">>, <<"-","1",":","0","0">>,
     <<"1","2",":","6">>, <<"1","2","3",":","0","0">>, <<"1","2",":","0","0","0">>,
     <<":","3","0">>, <<"1","2",":">>, <<" ","9",":","0","5">>, <<"9",":","0","5","\n">>,
     <<"1","2",".","3","0">>, <<"a",":","3","0">>, <<"1","2",":","3","a">>,
     <<"1",":","2",":","3","0">>}

\* buildEntry(opts) where the clock reads 0, for every option; for a valid
\* task and quality, also at every later reading, the timestamp given, empty
\* or left out
BuildEntryCalls ==
    {NewCall("buildEntry", o, Env(PromptsAll, 0)) : o \in EntryOptions}
        \cup {NewCall("buildEntry",
                      [NoOpts EXCEPT !.task = Str(<<"f", "i", "x">>), !.quality = Str(q),
                                     !.timestamp = ts],
                      Env(PromptsAll, n)) :
                  q \in {c_praise, c_correction}, ts \in {Undef, Str(<<>>), Str(c_iso)},
                  n \in 0..MaxNow}

ParseTimeCalls(values) ==
    {NewCall("parseTime", [NoOpts EXCEPT !.dailyTime = t], NoEnv) : t \in values}

\* timeToCron(t, f) for the two frequencies init asks for, made where the
\* clock reads n and the prompt files are pr
TimeToCronCalls(values) ==
    {[NewCall("timeToCron", [NoOpts EXCEPT !.dailyTime = t], e) EXCEPT !.freq = f] :
        t \in values, f \in {"daily", "weekly"},
        e \in {NoEnv, Env([PromptsAll EXCEPT !["daily"] = PromptMissing], 1)}}

InitFn ==
    /\ fs = Tree(Dir, Absent, Absent, Absent, Absent, Absent, Absent)
    /\ \/ \E c \in BuildEntryCalls : last = [call |-> c, pre |-> fs]
       \/ \E c \in ParseTimeCalls({Str(s) : s \in ClockStrings}) :
             last = [call |-> c, pre |-> fs]
       \/ \E c \in ParseTimeCalls({Str(s) : s \in OtherStrings} \cup {Undef, Null}) :
             last = [call |-> c, pre |-> fs]
       \/ \E c \in TimeToCronCalls({Str(s) : s \in ClockStrings}) :
             last = [call |-> c, pre |-> fs]
       \/ \E c \in TimeToCronCalls({Str(s) : s \in OtherStrings} \cup {Undef}) :
             last = [call |-> c, pre |-> fs]
    /\ ncalls = 0
    /\ rerun = FALSE
    /\ fresh = TRUE
    /\ log0 = <<>>
    /\ logged = <<>>
    /\ procs = [i \in Procs |-> Idle]

\* the call drawn is made: it returns or throws
Apply(op) ==
    /\ last.call.op = op
    /\ last.call.pc = "start"
    /\ LET r == Step(fs, last.call)
       IN  /\ fs' = r.fs
           /\ last' = [call |-> r.p, pre |-> fs]
    /\ ncalls' = ncalls + 1
    /\ UNCHANGED <<rerun, fresh, log0, logged, procs>>

BuildEntryApply == Apply("buildEntry")

ParseTimeApply == Apply("parseTime")

TimeToCronApply == Apply("timeToCron")

NextFn == BuildEntryApply \/ ParseTimeApply \/ TimeToCronApply

SpecFn == InitFn /\ [][NextFn]_vars

\* ---------------------------------------------------------------------------
\* SpecCli: one run of a command-line adapter, init-reflector or log-outcome,
\* on arguments made of at most MaxArgs of the pieces below, in any order
\* ---------------------------------------------------------------------------

\* a flag neither adapter knows
\* words of a command line: an option neither adapter knows, a task, a channel
Words ==
    [verbose |->
        <<"-", "-", "v", "e", "r", "b", "o", "s", "e">>,
     fix |->
        <<"f", "i", "x">>,
     ops |->
        <<"o", "p", "s">>]

InitPieces ==
    {<<FLAGS.dry_run>>, <<FLAGS.skip_cron>>, <<FLAGS.timezone, c_UTC>>, <<FLAGS.timezone>>,
     <<FLAGS.daily_time, <<"2", "5", ":", "0", "0">>>>, <<FLAGS.daily_time, <<"9", ":", "0", "5">>>>,
     <<FLAGS.weekly_time, <<"1", "2", ":", "6", "0">>>>, <<FLAGS.weekly_time>>,
     <<FLAGS.help>>, <<FLAGS.h>>, <<Words.verbose>>}

LogPieces ==
    {<<FLAGS.task, Words.fix>>, <<FLAGS.task>>, <<FLAGS.quality, c_praise>>, <<FLAGS.quality, c_correction>>,
     <<FLAGS.quality, <<"g", "o", "o", "d">>>>, <<FLAGS.delta, <<"d">> >>, <<FLAGS.lesson, <<"l">> >>,
     <<FLAGS.channel, <<"c">> >>, <<FLAGS.channel, <<>> >>, <<FLAGS.principle_candidate>>,
     <<FLAGS.help>>, <<FLAGS.h>>, <<Words.verbose>>}

RECURSIVE Flatten(_)
\* the pieces of a list put end to end
Flatten(q) == IF q = <<>> THEN <<>> ELSE Head(q) \o Flatten(Tail(q))

\* the argument lists made of at most n pieces
Argvs(pieces, n) == {Flatten(q) : q \in UNION {[1..k -> pieces] : k \in 0..n}}

\* the root as the adapter finds it: empty, or with a file where memory/ goes
CliWorkspaces ==
    {Tree(Dir, m, Absent, Absent, Absent, Absent, Absent) : m \in {Absent, File(customText)}}

\* OPENCLAW_CHANNEL: unset, empty, or a name
ChannelCases == {Undef, Str(<<>>), Str(Words.ops)}

CliCall(op, argv, env) == [NewCall(op, NoOpts, env) EXCEPT !.argv = argv]

InitCli ==
    /\ fs \in CliWorkspaces
    /\ \/ \E a \in Argvs(InitPieces, MaxArgs) :
             \E pr \in {PromptsAll, [PromptsAll EXCEPT !["weekly"] = PromptMissing]} :
                last = [call |-> CliCall("init-reflector", a, Env(pr, 0)), pre |-> fs]
       \/ \E a \in Argvs(LogPieces, MaxArgs) : \E ch \in ChannelCases :
             last = [call |-> CliCall("log-outcome", a,
                                      [Env(PromptsAll, 0) EXCEPT !.channel = ch]),
                     pre |-> fs]
    /\ ncalls = 0
    /\ rerun = FALSE
    /\ fresh = EmptyRoot(fs)
    /\ log0 = <<>>
    /\ logged = <<>>
    /\ procs = [i \in Procs |-> Idle]

\* the process drawn runs to its end
RunMain(op) ==
    /\ last.call.op = op
    /\ last.call.pc = "start"
    /\ LET r == Main(fs, last.call)
       IN  /\ fs' = r.fs
           /\ last' = [call |-> r.p, pre |-> fs]
           /\ logged' = logged \o Written(last.call, r.p)
    /\ ncalls' = ncalls + 1
    /\ UNCHANGED <<rerun, fresh, log0, procs>>

\* node init-reflector.js argv
InitReflector == RunMain("init-reflector")

\* node log-outcome.js argv
LogOutcome == RunMain("log-outcome")

NextCli == InitReflector \/ LogOutcome

SpecCli == InitCli /\ [][NextCli]_vars

\* ---------------------------------------------------------------------------
\* SpecInit: one call of init, with every option given or left out, where the
\* time zone can or cannot be detected and the prompt files are or are not there
\* ---------------------------------------------------------------------------

c_bangkok == <<"A", "s", "i", "a", "/", "B", "a", "n", "g", "k", "o", "k">>

ConfigOptions ==
    {[NoOpts EXCEPT !.dryRun = d, !.skipCron = k, !.timezone = z, !.dailyTime = t,
                    !.weeklyTime = w] :
        d \in {Undef, Bool(FALSE), Bool(TRUE)}, k \in {Undef, Bool(FALSE), Bool(TRUE)},
        z \in {Undef, Str(<<>>), Str(c_UTC), Str(c_bangkok)},
        t \in {Undef, Str(<<>>), Str(<<"0", "4", ":", "0", "0">>), Str(<<"9", ":", "0", "5">>),
                Str(<<"2", "5", ":", "0", "0">>)},
        w \in {Undef, Str(<<>>), Str(<<"0", "2", ":", "0", "0">>), Str(<<"1", "2", ":", "6", "0">>)}}

\* Intl.DateTimeFormat().resolvedOptions() answers, or throws
IntlCases == {[ok |-> TRUE, zone |-> c_zone], [ok |-> FALSE, zone |-> <<>>]}

\* the prompt files: both as shipped, one missing, or the daily one edited
PromptFiles ==
    PromptCases
        \cup {[PromptsAll EXCEPT !["daily"] = [ok |-> TRUE, text |-> "edited prompt"]]}

ConfigEnvs == {[Env(pr, 0) EXCEPT !.intl = z] : pr \in PromptFiles, z \in IntlCases}

\* the root before the call: empty, holding the layout with a log of one
\* line, or with a file where memory/ goes
FullLayout ==
    Tree(Dir, Dir, Dir, Dir, File(customText), File(<<TextLine("{}")>>), File(<<>>))

InitInit ==
    /\ fs \in {Tree(Dir, Absent, Absent, Absent, Absent, Absent, Absent), FullLayout,
               Tree(Dir, File(customText), Absent, Absent, Absent, Absent, Absent)}
    /\ \E o \in ConfigOptions : \E e \in ConfigEnvs :
          last = [call |-> NewCall("init", o, e), pre |-> fs]
    /\ ncalls = 0
    /\ rerun = FALSE
    /\ fresh = EmptyRoot(fs)
    /\ log0 = fs[OUTCOMES].content
    /\ logged = <<>>
    /\ procs = [i \in Procs |-> Idle]

\* the call drawn runs to its return or throw
InitRun ==
    /\ last.call.op = "init"
    /\ last.call.pc = "start"
    /\ LET r == Run(fs, last.call)
       IN  /\ fs' = r.fs
           /\ last' = [call |-> r.p, pre |-> fs]
    /\ ncalls' = ncalls + 1
    /\ UNCHANGED <<rerun, fresh, log0, logged, procs>>

NextInit == InitRun

SpecInit == InitInit /\ [][NextInit]_vars

\* ---------------------------------------------------------------------------
\* SpecRetry: one init call on a device that may fail one creation of the
\* layout, and the same call made again once the device is sound
\* ---------------------------------------------------------------------------

\* the device fails no call, or creation n of the layout, cleanly or part-way
Faults ==
    {NoFault} \cup {[at |-> n, torn |-> t] : n \in 1..(Len(dirs) + Len(files)), t \in BOOLEAN}

\* the root before the first call: empty, or as a log call left it
RetryWorkspaces ==
    {Tree(Dir, Absent, Absent, Absent, Absent, Absent, Absent),
     Tree(Dir, Dir, Dir, Absent, Absent, File(<<TextLine("{}")>>), Absent)}

InitRetry ==
    /\ fs \in RetryWorkspaces
    /\ last = [call |-> Idle, pre |-> fs]
    /\ ncalls = 0
    /\ rerun = FALSE
    /\ fresh = EmptyRoot(fs)
    /\ log0 = fs[OUTCOMES].content
    /\ logged = <<>>
    /\ procs = [i \in Procs |-> Idle]

\* init(opts) on the device as it is at first
FaultyInit ==
    /\ ncalls = 0
    /\ \E o \in InitOptions : \E ft \in Faults :
          Call([NewCall("init", o, Env(PromptsAll, 0)) EXCEPT !.fault = ft])

\* init(opts) once more, after the device failed the call before
RetryInit ==
    /\ last.call.op = "init"
    /\ last.call.pc = "failed"
    /\ last.call.err = "EIO"
    /\ Call(NewCall("init", last.call.opts, last.call.env))

NextRetry == FaultyInit \/ RetryInit

SpecRetry == InitRetry /\ [][NextRetry]_vars

\* ---------------------------------------------------------------------------
\* SpecFresh: init and log calls made one after the other on a root that
\* starts empty, the log calls with a timestamp of the caller's
\* ---------------------------------------------------------------------------

StampedLogOptions ==
    {[o EXCEPT !.timestamp = ts] : o \in LogOptions, ts \in {Undef, Str(c_iso), Str(c_yesterday)}}

InitFresh ==
    /\ fs = Tree(Dir, Absent, Absent, Absent, Absent, Absent, Absent)
    /\ last = [call |-> Idle, pre |-> fs]
    /\ ncalls = 0
    /\ rerun = FALSE
    /\ fresh = TRUE
    /\ log0 = <<>>
    /\ logged = <<>>
    /\ procs = [i \in Procs |-> Idle]

\* log(opts)
StampedLogCall ==
    /\ Lines(fs) < MaxLines
    /\ \E o \in StampedLogOptions : Call(NewCall("log", o, Env(PromptsAll, 0)))

NextFresh == InitCall \/ StampedLogCall

SpecFresh == InitFresh /\ [][NextFresh]_vars

\* ---------------------------------------------------------------------------
\* Properties
\* ---------------------------------------------------------------------------

FilePaths == {PRINCIPLES, OUTCOMES, HISTORY}

\* the six layout entries as a report names them, in layout order
Labels ==
    << [path |-> dirs[1], label |-> "memory/"],
       [path |-> dirs[2], label |-> "memory/reflector/"],
       [path |-> dirs[3], label |-> "memory/reflector/weekly-summaries/"],
       [path |-> PRINCIPLES, label |-> "PRINCIPLES.md"],
       [path |-> OUTCOMES, label |-> "memory/reflector/outcomes.jsonl"],
       [path |-> HISTORY, label |-> "memory/reflector/principles-history.jsonl"] >>

LabelsOf(sel) == [i \in 1..Len(sel) |-> sel[i].label]

\* the labels of the layout paths that a workspace lacks
AbsentIn(f) == LabelsOf(SelectSeq(Labels, LAMBDA e : f[e.path].kind = "absent"))

InSeq(x, q) == \E i \in 1..Len(q) : q[i] = x

IsPrefix(a, b) == Len(a) <= Len(b) /\ SubSeq(b, 1, Len(a)) = a

TimeErrors == {"InvalidFormat", "InvalidHour", "InvalidMinute"}

LastInit == last.call.op = "init"

LastReturned == last.call.pc = "done"

LastThrew == last.call.pc = "failed"

LastDry == last.call.opts.dryRun = Bool(TRUE)

\* C1: when init returns, every required file that existed before the call
\* has the content it had before the call and is listed in report.existed.
C1_ExistingFilesKept ==
    (LastInit /\ LastReturned) =>
        \A f \in FilePaths :
            last.pre[f].kind = "file" =>
                /\ fs[f] = last.pre[f]
                /\ InSeq(f, last.call.report.existed)

\* a returned non-dry-run init that found PRINCIPLES.md holding the user's
\* text and the outcome log missing
C1_Witness ==
    /\ LastInit /\ LastReturned /\ ~LastDry
    /\ last.pre[PRINCIPLES] = File(customText)
    /\ fs[PRINCIPLES] = File(customText)
    /\ InSeq(OUTCOMES, last.call.report.created)

\* C2 as stated: an init repeated with unchanged inputs leaves the filesystem
\* as the call before it left it, and returns an empty created list, whatever
\* the dry-run and skip-schedule flags.
C2_Original ==
    (rerun /\ LastInit /\ last.call.err \notin TimeErrors) =>
        /\ fs = last.pre
        /\ LastReturned => last.call.report.created = <<>>

\* C2 amended: an init repeated with unchanged inputs leaves the filesystem as
\* the call before it left it; when dry-run is not set, the repeated call
\* returns an empty created list.
C2_Idempotent ==
    (rerun /\ LastInit /\ last.call.err \notin TimeErrors) =>
        /\ fs = last.pre
        /\ (LastReturned /\ ~LastDry) => last.call.report.created = <<>>

\* a second non-dry-run init on a root that was empty before the first
C2_Witness ==
    /\ rerun /\ LastInit /\ LastReturned /\ ~LastDry /\ fresh
    /\ ~EmptyRoot(fs)
    /\ Len(last.call.report.existed) = Len(Labels)

\* C3: a non-dry-run init on an empty root reports nothing as existed and
\* something as created; a second one reports nothing as created and as
\* existed exactly the first report's created list, in order; the files the
\* first run wrote keep their content.
C3_TwoRuns ==
    /\ [](LastInit /\ LastReturned /\ ~LastDry /\ EmptyRoot(last.pre)
            => /\ last.call.report.existed = <<>>
               /\ last.call.report.created # <<>>)
    /\ [][(/\ LastInit /\ LastReturned /\ ~LastDry /\ EmptyRoot(last.pre)
           /\ ncalls' = ncalls + 1
           /\ last'.call.op = "init" /\ last'.call.pc = "done"
           /\ last'.call.opts.dryRun # Bool(TRUE))
            => /\ last'.call.report.created = <<>>
               /\ last'.call.report.existed = last.call.report.created
               /\ \A f \in FilePaths : fs'[f] = fs[f]]_vars

\* the second of two identical non-dry-run inits, the first begun on an empty
\* root: all six entries existed, the template is in place
C3_Witness ==
    /\ fresh /\ ncalls = 2 /\ rerun /\ LastInit /\ LastReturned /\ ~LastDry
    /\ last.call.report.existed = LabelsOf(Labels)
    /\ fs[PRINCIPLES] = File(principlesTemplate)

\* C4: an init with dry-run set leaves the filesystem exactly as it was, and
\* its report has dryRun = true and lists as created the absent paths.
C4_DryRunFrame ==
    (LastInit /\ LastDry) =>
        /\ fs = last.pre
        /\ LastReturned =>
              /\ last.call.report.dryRun = Bool(TRUE)
              /\ last.call.report.created = AbsentIn(last.pre)

\* a returned dry run on a root that lacks part of the layout
C4_Witness ==
    /\ LastInit /\ LastDry /\ LastReturned
    /\ last.pre[dirs[1]].kind = "dir"
    /\ last.pre[dirs[2]].kind = "absent"
    /\ Len(last.call.report.created) = 5

\* the last call made again on the workspace it found, dry-run not set
RealRun == Run(last.pre, NewCall("init", [last.call.opts EXCEPT !.dryRun = Undef], last.call.env)).p

Rejected(time) == time.t = "string" /\ ~parseTime(time).ok

LastBadTime == Rejected(last.call.opts.dailyTime) \/ Rejected(last.call.opts.weeklyTime)

\* C6: an init whose daily or weekly time string fails parseTime throws the
\* time error, returns no report and leaves the filesystem as it was, whatever
\* the dry-run and skip-schedule flags.
C6_BadTimeNoMutation ==
    (LastInit /\ LastBadTime) =>
        /\ LastThrew
        /\ last.call.err \in TimeErrors
        /\ last.call.report = NoReport
        /\ fs = last.pre

LastLog == last.call.op = "log"

LastBadEntry ==
    \/ last.call.opts.task \in {Undef, Str(<<" ", "\t">>)}
    \/ last.call.opts.quality = Str(<<"g","o","o","d">>)

\* C7: a log call whose input fails validation throws and mutates nothing:
\* the log and its directory stay absent, or the log keeps its content.
C7_RejectedLogNoMutation ==
    (LastLog /\ LastBadEntry) =>
        /\ LastThrew
        /\ last.call.err \in {"MissingTask", "InvalidQuality"}
        /\ fs = last.pre

\* a rejected log call on a root without memory/reflector
C7_Witness ==
    /\ LastLog /\ LastThrew /\ last.call.err = "MissingTask"
    /\ fs[ROOT].kind = "dir"
    /\ fs[DEFAULT_LOG_DIR].kind = "absent"
    /\ fs[OUTCOMES].kind = "absent"

LastAppended == last.call.op \in {"log", "appendEntry"} /\ LastReturned

\* C8: a successful append leaves the log as its previous content followed by
\* the one line of the entry; the log is the initial text followed by the
\* lines of the successful appends in call order, so k lines after k appends
\* on a fresh root.
C8_OneLineAtEnd ==
    /\ LastAppended =>
          fs[OUTCOMES] = File(last.pre[OUTCOMES].content \o <<stringify(last.call.entry)>>)
    /\ fs[OUTCOMES].content = log0 \o logged
    /\ fresh => Len(fs[OUTCOMES].content) = Len(logged)

\* two successful appends of different entries on a fresh root
C8_Witness ==
    /\ fresh /\ LastAppended
    /\ Len(logged) = 2 /\ logged[1] # logged[2]
    /\ fs[OUTCOMES].content = logged

\* C9: over init and log calls in any order the outcome log only grows at the
\* end; an init that finds the log leaves it unchanged and reports it existed.
C9_LogAppendOnly ==
    /\ [][/\ IsPrefix(fs[OUTCOMES].content, fs'[OUTCOMES].content)
          /\ fs[OUTCOMES].kind = "file" => fs'[OUTCOMES].kind = "file"]_vars
    /\ []((LastInit /\ LastReturned /\ last.pre[OUTCOMES].kind = "file")
            => /\ fs[OUTCOMES] = last.pre[OUTCOMES]
               /\ InSeq(OUTCOMES, last.call.report.existed))

\* a non-dry-run init run after an entry was logged on a fresh root
C9_Witness ==
    /\ fresh /\ LastInit /\ LastReturned /\ ~LastDry
    /\ Len(logged) = 1
    /\ fs[OUTCOMES].content = logged
    /\ InSeq(PRINCIPLES, last.call.report.created)

AllFinished == \A i \in Procs : Finished(procs[i])

\* C10: when an init call and a log call interleave, the line of a log call
\* that completed is in the outcome log once both calls have finished.
C10_LoggedLineSurvives ==
    (AllFinished /\ \E i \in Procs : procs[i].op = "init") =>
        \A i \in Procs :
            (procs[i].op = "log" /\ procs[i].pc = "done") =>
                InSeq(stringify(procs[i].entry), fs[OUTCOMES].content)

\* the workspace a single non-dry-run init leaves on an empty root
SingleInit ==
    Run(Tree(Dir, Absent, Absent, Absent, Absent, Absent, Absent),
        NewCall("init", [NoOpts EXCEPT !.skipCron = Bool(TRUE)], NoEnv)).fs

BothInit == \A i \in Procs : procs[i].op = "init" /\ ~Truthy(procs[i].opts.dryRun)

\* C11: when two non-dry-run init calls interleave on an empty root, neither
\* fails on a path that already exists (a call fails only on its own time
\* strings), and once both have finished the workspace is the one a single
\* init leaves.
C11_ConcurrentInit ==
    (AllFinished /\ fresh /\ BothInit) =>
        /\ \A i \in Procs : procs[i].pc = "failed" => procs[i].err \in TimeErrors
        /\ (\E i \in Procs : procs[i].pc = "done") => fs = SingleInit

\* both calls found every path of the layout absent and both created it
C11_Witness ==
    /\ AllFinished /\ fresh /\ BothInit
    /\ \A i \in Procs : /\ procs[i].pc = "done"
                         /\ procs[i].report.created = LabelsOf(Labels)
    /\ fs = SingleInit

AllLog == \A i \in Procs : procs[i].op = "log"

\* the positions of the outcome log that hold the line of process i's entry
LinesOf(i) ==
    {j \in 1..Len(fs[OUTCOMES].content) : fs[OUTCOMES].content[j] = stringify(procs[i].entry)}

\* C12: when log calls interleave, once all have finished the outcome log
\* holds exactly one whole line for each call that succeeded and nothing else:
\* no line is lost, none is split or mixed with another.
C12_AtomicAppends ==
    (AllFinished /\ AllLog) =>
        /\ \A i \in Procs : procs[i].pc = "done" => Cardinality(LinesOf(i)) = 1
        /\ Len(fs[OUTCOMES].content)
              = Len(log0) + Cardinality({i \in Procs : procs[i].pc = "done"})
        /\ \A j \in 1..Len(fs[OUTCOMES].content) :
              j > Len(log0) => fs[OUTCOMES].content[j].fmt = "json"
        /\ fs[OUTCOMES].content = log0 \o logged

\* two log calls begun on an empty root, both successful; the line of the
\* second process lies before the line of the first
C12_Witness ==
    /\ AllFinished /\ AllLog /\ fresh
    /\ \A i \in Procs : procs[i].pc = "done"
    /\ fs[OUTCOMES].content = <<stringify(procs[2].entry), stringify(procs[1].entry)>>

\* YYYY-MM-DDTHH:MM:SS, an optional fraction of three digits, Z
IsISO8601(s) ==
    /\ Len(s) \in {20, 24}
    /\ \A i \in {1, 2, 3, 4, 6, 7, 9, 10, 12, 13, 15, 16, 18, 19} : s[i] \in Digits
    /\ s[5] = "-" /\ s[8] = "-" /\ s[11] = "T" /\ s[14] = ":" /\ s[17] = ":"
    /\ s[Len(s)] = "Z"
    /\ Len(s) = 24 => (s[20] = "." /\ \A i \in 21..23 : s[i] \in Digits)

TextOrNull(v) == v.t \in {"string", "null"}

\* a line of the outcome log that is a record of the documented schema
SchemaValid(line) ==
    /\ line.fmt = "json"
    /\ [i \in 1..Len(line.fields) |-> line.fields[i][1]] = EntryKeys
    /\ LET e == [i \in 1..Len(EntryKeys) |-> line.fields[i][2]]
       IN  /\ e[1].t = "string" /\ IsISO8601(e[1].s)
           /\ e[2].t = "string" /\ e[2].s # <<>> /\ trim(e[2].s) = e[2].s
           /\ TextOrNull(e[3])
           /\ e[4].t = "string" /\ e[4].s \in QUALITY_TYPES
           /\ TextOrNull(e[5])
           /\ TextOrNull(e[6])
           /\ e[7].t = "boolean"

\* C13: after any sequence of init and log calls on a root that starts empty,
\* every line of the outcome log is a record with exactly the seven keys, an
\* ISO 8601 timestamp, a non-empty trimmed task, one of the five qualities,
\* channel, delta and lesson each a string or null, and a boolean
\* principleCandidate.
C13_SchemaValid ==
    \A j \in 1..Len(fs[OUTCOMES].content) : SchemaValid(fs[OUTCOMES].content[j])

LastBuild == last.call.op = "buildEntry" /\ last.call.pc # "start"

\* the task is absent, not a string, empty or whitespace only
BlankTask(t) == t.t # "string" \/ \A i \in 1..Len(t.s) : t.s[i] \in WhiteSpace

ValidQuality(q) == q.t = "string" /\ q.s \in {c_correction, c_edit, c_praise, c_silence, c_unknown}

\* C14: buildEntry with a valid task and quality and no principle-candidate
\* value of the caller's returns principleCandidate true for correction and
\* false for edit, praise, silence and unknown.
C14_AutoFlag ==
    (LastBuild /\ LastReturned /\ last.call.opts.principleCandidate = Undef) =>
        /\ ValidQuality(last.call.opts.quality)
        /\ last.call.entry.principleCandidate
              = Bool(last.call.opts.quality.s = c_correction)

\* a correction built without the flag, flagged
C14_Witness ==
    /\ LastBuild /\ LastReturned
    /\ last.call.opts.principleCandidate = Undef
    /\ last.call.opts.quality = Str(c_correction)
    /\ last.call.entry.principleCandidate = Bool(TRUE)

\* C15: when the caller gives the principle-candidate value v, true or false,
\* buildEntry returns principleCandidate = v for each of the five qualities.
C15_ExplicitFlag ==
    (LastBuild /\ LastReturned /\ last.call.opts.principleCandidate.t = "boolean") =>
        last.call.entry.principleCandidate = last.call.opts.principleCandidate

\* SubSeq(t, i, j) is t without its leading and trailing whitespace
Trimmed(t, i, j) ==
    /\ \A k \in 1..Len(t) : (k < i \/ k > j) => t[k] \in WhiteSpace
    /\ i <= j /\ t[i] \notin WhiteSpace /\ t[j] \notin WhiteSpace

\* C16: buildEntry throws the missing-task error when the task is absent, not
\* a string, empty or whitespace only; for any other task, the quality being
\* valid, it returns and stores the task without its leading and trailing
\* whitespace, which is not empty.
C16_TaskRule ==
    LastBuild =>
        LET t == last.call.opts.task
        IN  /\ BlankTask(t) => (LastThrew /\ last.call.err = "MissingTask")
            /\ (~BlankTask(t) /\ ValidQuality(last.call.opts.quality)) =>
                  /\ LastReturned
                  /\ last.call.entry.task.t = "string"
                  /\ last.call.entry.task.s # <<>>
                  /\ \E i, j \in 1..Len(t.s) :
                        Trimmed(t.s, i, j) /\ last.call.entry.task.s = SubSeq(t.s, i, j)

\* a task with whitespace on both sides, stored without it
C16_Witness ==
    /\ LastBuild /\ LastReturned
    /\ last.call.opts.task = Str(<<" ", "f", "i", "x", " ">>)
    /\ last.call.entry.task = Str(<<"f", "i", "x">>)

\* C17: buildEntry with a valid task returns exactly when the quality is one
\* of the five values, and then stores it unchanged as outputQuality; for a
\* missing or any other quality it throws the invalid-quality error, whose
\* message lists the five values and quotes the quality given (nothing for a
\* missing one).
C17_QualityRule ==
    (LastBuild /\ ~BlankTask(last.call.opts.task)) =>
        LET q == last.call.opts.quality
        IN  /\ LastReturned <=> ValidQuality(q)
            /\ LastReturned => last.call.entry.outputQuality = q
            /\ LastThrew =>
                  /\ last.call.err = "InvalidQuality"
                  /\ last.call.msg.valid = <<c_correction, c_edit, c_praise, c_silence, c_unknown>>
                  /\ last.call.msg.got = (IF Truthy(q) THEN ToStr(q) ELSE <<>>)

\* a quality outside the five, rejected with a message that quotes it
C17_Witness ==
    /\ LastBuild /\ LastThrew /\ last.call.err = "InvalidQuality"
    /\ last.call.opts.quality = Str(<<"g","o","o","d">>)
    /\ last.call.msg.got = <<"g","o","o","d">>
    /\ Len(last.call.msg.valid) = 5

\* C18: in an entry buildEntry returns, each of channel, delta and lesson is
\* the non-empty string the caller gave, or null when the caller gave none or
\* the empty string; it is never the empty string.
C18_OptionalFields ==
    (LastBuild /\ LastReturned) =>
        \A f \in {"channel", "delta", "lesson"} :
            LET v == last.call.opts[f]
            IN  /\ last.call.entry[f] = (IF v.t = "string" /\ v.s # <<>> THEN v ELSE Null)
                /\ last.call.entry[f] # Str(<<>>)

\* an entry built from an empty channel, a delta and no lesson
C18_Witness ==
    /\ LastBuild /\ LastReturned
    /\ last.call.opts.channel = Str(<<>>) /\ last.call.entry.channel = Null
    /\ last.call.opts.lesson = Undef /\ last.call.entry.lesson = Null
    /\ last.call.entry.delta = Str(<<"d">>)

LastParse == last.call.op = "parseTime" /\ last.call.pc # "start"

\* one or two digits, a colon, two digits
IsClock(s) ==
    /\ Len(s) \in {4, 5}
    /\ \A i \in 1..Len(s) : IF i = Len(s) - 2 THEN s[i] = ":" ELSE s[i] \in Digits

\* the numbers a clock string writes
HourOf(s) == IF Len(s) = 4 THEN DigitVal(s[1]) ELSE 10 * DigitVal(s[1]) + DigitVal(s[2])

MinuteOf(s) == 10 * DigitVal(s[Len(s) - 1]) + DigitVal(s[Len(s)])

\* C19: for every hour 0..23 written with one or two digits and every minute
\* 0..59 written with two digits, parseTime returns the pair (hour, minute)
\* and changes nothing.
C19_ParsesValid ==
    LastParse =>
        LET v == last.call.opts.dailyTime
        IN  (v.t = "string" /\ IsClock(v.s) /\ HourOf(v.s) <= 23 /\ MinuteOf(v.s) <= 59) =>
                /\ LastReturned
                /\ last.call.val = <<HourOf(v.s), MinuteOf(v.s)>>
                /\ fs = last.pre

\* "9:05" parsed to (9, 5)
C19_Witness ==
    /\ LastParse /\ LastReturned
    /\ last.call.opts.dailyTime = Str(<<"9", ":", "0", "5">>)
    /\ last.call.val = <<9, 5>>

\* C20: parseTime throws the format error for an input that is not one or two
\* digits, a colon and two digits; the hour error for a well-formed string with
\* hour > 23, whatever its minute; the minute error for a well-formed string
\* with hour in range and minute > 59.
C20_ErrorKinds ==
    LastParse =>
        LET v == last.call.opts.dailyTime
            clock == v.t = "string" /\ IsClock(v.s)
        IN  /\ ~clock => (LastThrew /\ last.call.err = "InvalidFormat")
            /\ (clock /\ HourOf(v.s) > 23) => (LastThrew /\ last.call.err = "InvalidHour")
            /\ (clock /\ HourOf(v.s) <= 23 /\ MinuteOf(v.s) > 59) =>
                  (LastThrew /\ last.call.err = "InvalidMinute")

\* "25:60", hour and minute both out of range, rejected for its hour
C20_Witness ==
    /\ LastParse /\ LastThrew /\ last.call.err = "InvalidHour"
    /\ last.call.opts.dailyTime = Str(<<"2", "5", ":", "6", "0">>)

LastCron == last.call.op = "timeToCron" /\ last.call.pc # "start"

\* the decimal numeral of n < 100: one or two digits, no leading zero
Numeral(n) ==
    CHOOSE s \in {<<a>> : a \in Digits} \cup {<<a, b>> : a \in Digits \ {"0"}, b \in Digits} :
        (IF Len(s) = 1 THEN DigitVal(s[1]) ELSE 10 * DigitVal(s[1]) + DigitVal(s[2])) = n

\* C21: for every valid time string with hour H and minute M, timeToCron
\* returns "M H * * *" for 'daily' and "M H * * 0" for 'weekly', M and H
\* written in decimal without leading zeros, whatever the clock and the
\* prompt files are, and changes nothing.
C21_CronTemplate ==
    LastCron =>
        LET v == last.call.opts.dailyTime
        IN  (v.t = "string" /\ IsClock(v.s) /\ HourOf(v.s) <= 23 /\ MinuteOf(v.s) <= 59) =>
                /\ LastReturned
                /\ last.call.val =
                       Numeral(MinuteOf(v.s)) \o <<" ">> \o Numeral(HourOf(v.s))
                           \o <<" ", "*", " ", "*", " ">>
                           \o (IF last.call.freq = "weekly" THEN <<"0">> ELSE <<"*">>)
                /\ fs = last.pre

\* "03:00" weekly gives "0 3 * * 0"
C21_Witness ==
    /\ LastCron /\ LastReturned /\ last.call.freq = "weekly"
    /\ last.call.opts.dailyTime = Str(<<"0", "3", ":", "0", "0">>)
    /\ last.call.val = <<"0", " ", "3", " ", "*", " ", "*", " ", "0">>

LayoutPaths == Paths \ {ROOT}

\* none of the six layout paths existed before the last call
LayoutMissing == \A q \in LayoutPaths : ~existsSync(last.pre, q)

\* C22: after a non-dry-run init that returns, made on a root where none of
\* the layout paths existed, the three directories exist, PRINCIPLES.md holds
\* exactly the template, and the two .jsonl files exist and are empty.
C22_FreshLayout ==
    (LastInit /\ LastReturned /\ ~LastDry /\ LayoutMissing) =>
        /\ \A i \in 1..Len(dirs) : existsSync(fs, dirs[i]) /\ fs[dirs[i]].kind = "dir"
        /\ existsSync(fs, PRINCIPLES) /\ fs[PRINCIPLES] = File(principlesTemplate)
        /\ existsSync(fs, OUTCOMES) /\ fs[OUTCOMES] = File(<<>>)
        /\ existsSync(fs, HISTORY) /\ fs[HISTORY] = File(<<>>)

\* a non-dry-run init returned on an empty root and created all six entries
C22_Witness ==
    /\ LastInit /\ LastReturned /\ ~LastDry /\ LayoutMissing
    /\ EmptyRoot(last.pre)
    /\ last.call.report.created = LabelsOf(Labels)
    /\ fs[PRINCIPLES] = File(principlesTemplate)

LastSkip == Truthy(Or(last.call.opts.skipCron, Bool(FALSE)))

\* one of the two prompt files of the last call cannot be read
PromptGone == \E k \in {"daily", "weekly"} : ~last.call.env.prompts[k].ok

\* the last call as it would have ended with both prompt files in place
WithPrompts ==
    Run(last.pre, NewCall(last.call.op, last.call.opts, Env(PromptsAll, last.call.env.now))).p

\* C23: an init without skipCron that finds one of the two prompt files
\* unreadable throws and so returns no report; when nothing before the
\* prompts fails, what it throws is the load error.
C23_PromptFailure ==
    (LastInit /\ Finished(last.call) /\ ~LastSkip /\ PromptGone) =>
        /\ LastThrew
        /\ WithPrompts.pc = "done" => last.call.err = "PromptUnavailable"

\* the weekly prompt was missing: the call threw the load error after it had
\* created the layout
C23_Witness ==
    /\ LastInit /\ LastThrew /\ ~LastSkip /\ ~LastDry
    /\ last.call.env.prompts["daily"].ok /\ ~last.call.env.prompts["weekly"].ok
    /\ last.call.err = "PromptUnavailable"
    /\ EmptyRoot(last.pre) /\ fs[HISTORY] = File(<<>>)

LastExited == last.call.pc = "exited"

\* the flags the adapter that ran last knows
KnownFlags ==
    IF last.call.op = "init-reflector"
    THEN {FLAGS.dry_run, FLAGS.skip_cron, FLAGS.timezone, FLAGS.daily_time, FLAGS.weekly_time, FLAGS.help, FLAGS.h}
    ELSE {FLAGS.task, FLAGS.quality, FLAGS.delta, FLAGS.lesson, FLAGS.channel, FLAGS.principle_candidate, FLAGS.help, FLAGS.h}

\* an argument written as a flag that the adapter does not know
UnknownFlagGiven ==
    \E i \in 1..Len(last.call.argv) :
        LET a == last.call.argv[i]
        IN  a # <<>> /\ a[1] = "-" /\ a \notin KnownFlags

\* C24: a run of either adapter whose argument list holds an unknown flag,
\* wherever it stands, exits with a non-zero status inside parseArgs: init
\* or log is not called and no directory or file is created or modified.
C24_UnknownFlag ==
    (LastExited /\ UnknownFlagGiven) =>
        /\ last.call.code # 0
        /\ last.call.core = ""
        /\ fs = last.pre

ValidationErrors == TimeErrors \cup {"MissingTask", "InvalidQuality"}

\* C25: a run of either adapter in which init or log throws a validation
\* error (a bad time; a bad quality or a missing task) exits with a non-zero
\* status and exactly one line on the error stream; a run in which init or
\* log returns exits with status 0.
C25_ExitStatus ==
    LastExited =>
        /\ (last.call.core = "failed" /\ last.call.err \in ValidationErrors) =>
              (last.call.code # 0 /\ Len(last.call.stderr) = 1)
        /\ last.call.core = "done" => last.call.code = 0

\* the labels, in layout order, of the layout paths that exist in f, or of
\* those that do not
LabelsWhere(f, there) ==
    LabelsOf(SelectSeq(Labels, LAMBDA e : existsSync(f, e.path) = there))

\* C26: when init returns, dry run or not, report.existed lists exactly the
\* layout entries whose path existed when the call started and report.created
\* exactly those whose path did not, each list in layout order (directories,
\* with a trailing slash, before files): every entry is in one list, once.
C26_TrueDeltas ==
    (LastInit /\ LastReturned) =>
        /\ last.call.report.existed = LabelsWhere(last.pre, TRUE)
        /\ last.call.report.created = LabelsWhere(last.pre, FALSE)
        /\ \A i \in 1..Len(Labels) :
              InSeq(Labels[i].label, last.call.report.existed)
                  # InSeq(Labels[i].label, last.call.report.created)

\* a returned non-dry-run init that found memory/ and PRINCIPLES.md and
\* created the other four entries
C26_Witness ==
    /\ LastInit /\ LastReturned /\ ~LastDry
    /\ last.call.report.existed = <<"memory/", "PRINCIPLES.md">>
    /\ Len(last.call.report.created) = 4
    /\ last.pre[dirs[2]].kind = "absent" /\ fs[dirs[2]].kind = "dir"

\* C27: when init returns and skipCron was not set, report.prompts has a
\* daily and a weekly part; each cron expression is timeToCron of the
\* report's time for that frequency, both time zones are the report's, and
\* each prompt is the text of its file as read.
C27_SchedulePayload ==
    (LastInit /\ LastReturned /\ ~LastSkip) =>
        LET r == last.call.report
        IN  /\ DOMAIN r.prompts = {"daily", "weekly"}
            /\ r.prompts["daily"].cron = timeToCron(r.dailyTime, "daily")
            /\ r.prompts["weekly"].cron = timeToCron(r.weeklyTime, "weekly")
            /\ r.prompts["daily"].timezone = r.timezone
            /\ r.prompts["weekly"].timezone = r.timezone
            /\ \A k \in {"daily", "weekly"} :
                  r.prompts[k].prompt = last.call.env.prompts[k].text

\* init({ timezone: 'Asia/Bangkok', dailyTime: '9:05', weeklyTime: '02:00' })
\* with the daily prompt edited
C27_Witness ==
    /\ LastInit /\ LastReturned /\ ~LastSkip
    /\ last.call.report.prompts["daily"].cron = <<"5", " ", "9", " ", "*", " ", "*", " ", "*">>
    /\ last.call.report.prompts["weekly"].cron = <<"0", " ", "2", " ", "*", " ", "*", " ", "0">>
    /\ last.call.report.prompts["weekly"].timezone = Str(c_bangkok)
    /\ last.call.report.prompts["daily"].prompt = "edited prompt"

\* the last call as it would have ended without skipCron, all prompts in place
Unskipped ==
    Run(last.pre, NewCall("init", [last.call.opts EXCEPT !.skipCron = Undef],
                          [last.call.env EXCEPT !.prompts = PromptsAll]))

\* C28: an init with skipCron set loads no prompt: it never fails for a
\* prompt that is missing, a report it returns has an empty prompts object,
\* and it ends as the same call without skipCron does when both prompts are
\* there: same filesystem, same created and existed lists, same error if any.
C28_SkipSchedule ==
    (LastInit /\ Finished(last.call) /\ LastSkip) =>
        /\ last.call.err # "PromptUnavailable"
        /\ LastReturned => DOMAIN last.call.report.prompts = {}
        /\ fs = Unskipped.fs
        /\ last.call.pc = Unskipped.p.pc
        /\ last.call.err = Unskipped.p.err
        /\ last.call.report.created = Unskipped.p.report.created
        /\ last.call.report.existed = Unskipped.p.report.existed

\* an init with skipCron returned on an empty root though the daily prompt
\* was missing, having created the six entries
C28_Witness ==
    /\ LastInit /\ LastReturned /\ LastSkip /\ ~LastDry
    /\ ~last.call.env.prompts["daily"].ok
    /\ EmptyRoot(last.pre)
    /\ last.call.report.created = LabelsOf(Labels)
    /\ fs[HISTORY] = File(<<>>)

\* an option given a value: a string that is not empty
Given(v) == v.t = "string" /\ v.s # <<>>

\* C29: a report init returns holds the resolved configuration: the root;
\* each time, the value given, else 03:30 (daily) or 03:00 (weekly); the time
\* zone, the value given, else the zone the system reports, else UTC when
\* the detection throws; dryRun, false when not given.  skipCron not given
\* is skipCron false: the schedule payload is built.
C29_Resolution ==
    (LastInit /\ LastReturned) =>
        LET o == last.call.opts
            r == last.call.report
        IN  /\ r.root = RootPath
            /\ r.dailyTime = IF Given(o.dailyTime) THEN o.dailyTime
                              ELSE Str(<<"0", "3", ":", "3", "0">>)
            /\ r.weeklyTime = IF Given(o.weeklyTime) THEN o.weeklyTime
                               ELSE Str(<<"0", "3", ":", "0", "0">>)
            /\ r.timezone = IF Given(o.timezone) THEN o.timezone
                             ELSE IF last.call.env.intl.ok THEN Str(last.call.env.intl.zone)
                             ELSE Str(<<"U", "T", "C">>)
            /\ r.dryRun = IF o.dryRun = Undef THEN Bool(FALSE) ELSE o.dryRun
            /\ (o.skipCron \in {Undef, Bool(FALSE)}) <=> (DOMAIN r.prompts = {"daily", "weekly"})

\* init with no option given where the zone cannot be detected: the report
\* holds 03:30, 03:00, UTC and dryRun false, and the layout was created
C29_Witness ==
    /\ LastInit /\ LastReturned
    /\ last.call.opts = NoOpts
    /\ ~last.call.env.intl.ok
    /\ last.call.report.timezone = Str(c_UTC)
    /\ last.call.report.dailyTime = Str(<<"0", "3", ":", "3", "0">>)
    /\ last.call.report.dryRun = Bool(FALSE)
    /\ EmptyRoot(last.pre) /\ fs[OUTCOMES] = File(<<>>)

\* the workspace before the first call of SpecRetry
Original == CHOOSE f \in RetryWorkspaces : EmptyRoot(f) = fresh

\* the last call was a non-dry-run init repeating, on a sound device, the
\* call the device had failed
Retried == rerun /\ LastInit /\ ~Truthy(last.call.opts.dryRun)

\* the workspace as the first call leaves it on a sound device
Uninterrupted == Run(Original, NewCall("init", last.call.opts, last.call.env)).fs

\* C30: when a non-dry-run init has failed with a storage error at the
\* creation of a directory or the write of a file, the same call made again
\* once the device is sound returns, leaves the workspace as an uninterrupted
\* first call would have left it, and reports as existed, and leaves as they
\* were, the entries the failed call had created.
C30_RetryAfterFailure ==
    Retried =>
        /\ LastReturned
        /\ fs = Uninterrupted
        /\ \A i \in 1..Len(Labels) :
              (existsSync(last.pre, Labels[i].path) /\ ~existsSync(Original, Labels[i].path)) =>
                  /\ InSeq(Labels[i].label, last.call.report.existed)
                  /\ fs[Labels[i].path] = last.pre[Labels[i].path]

\* a file lies where the last call's workspace wants a directory
Collision == \E i \in 1..Len(dirs) : last.pre[dirs[i]].kind = "file"

\* C31: a non-dry-run init made where memory, memory/reflector or
\* memory/reflector/weekly-summaries is a regular file throws: it returns no
\* report.
C31_PathCollision ==
    (LastInit /\ Finished(last.call) /\ ~Truthy(last.call.opts.dryRun) /\ Collision) => LastThrew

\* C32: a log call that returns returns the entry buildEntry makes of its
\* options, and the last line of the outcome log parses to that entry, member
\* for member; appendEntry returns root/memory/reflector/outcomes.jsonl, the
\* path of the log file init creates.
C32_RoundTrip ==
    LastAppended =>
        /\ LastLog => last.call.entry = buildEntry(last.call.opts, last.call.env.now).entry
        /\ fs[OUTCOMES].kind = "file" /\ fs[OUTCOMES].content # <<>>
        /\ parse(fs[OUTCOMES].content[Len(fs[OUTCOMES].content)]) = last.call.entry
        /\ last.call.ret = join(RootPath, files[2][1])

\* a log call on an empty root returned an entry for a correction, which the
\* one line of the log holds
C32_Witness ==
    /\ LastLog /\ LastReturned /\ EmptyRoot(last.pre)
    /\ last.call.entry.outputQuality = Str(c_correction)
    /\ last.call.entry.channel = Null
    /\ Len(fs[OUTCOMES].content) = 1
    /\ parse(fs[OUTCOMES].content[1]).principleCandidate = Bool(TRUE)

\* the last call was log or appendEntry, returned or thrown
LastAppend == last.call.op \in {"log", "appendEntry"} /\ Finished(last.call)

\* C33: log and appendEntry change the log file and nothing else but
\* memory/reflector and its ancestors, which they create where missing: on an
\* empty root a call with a valid entry returns, having made the directory and
\* the log file of one line; PRINCIPLES.md, principles-history.jsonl and
\* weekly-summaries are in every case as they were before the call.
C33_AppendFrame ==
    LastAppend =>
        /\ \A q \in {PRINCIPLES, HISTORY, dirs[3]} : fs[q] = last.pre[q]
        /\ \A q \in Paths \ {OUTCOMES} :
              fs[q] # last.pre[q] =>
                  /\ q \in {DEFAULT_LOG_DIR} \cup Ancestors(DEFAULT_LOG_DIR)
                  /\ last.pre[q].kind = "absent" /\ fs[q] = Dir
        /\ fs[OUTCOMES] # last.pre[OUTCOMES] => (LastReturned /\ fs[OUTCOMES].kind = "file")
        /\ (EmptyRoot(last.pre) /\ buildEntry(last.call.opts, last.call.env.now).ok) =>
              /\ LastReturned
              /\ fs[dirs[1]] = Dir /\ fs[DEFAULT_LOG_DIR] = Dir
              /\ fs[OUTCOMES] = File(<<stringify(last.call.entry)>>)

\* appendEntry returned on an empty root: memory/reflector and the log exist,
\* the rest of the layout does not
C33_Witness ==
    /\ last.call.op = "appendEntry" /\ LastReturned /\ EmptyRoot(last.pre)
    /\ fs[DEFAULT_LOG_DIR] = Dir /\ fs[OUTCOMES].kind = "file"
    /\ fs[dirs[3]] = Absent /\ fs[PRINCIPLES] = Absent /\ fs[HISTORY] = Absent

\* the UTF-16 code unit of a character of an ISO 8601 timestamp
CodeUnit(c) ==
    CASE c = "-" -> 45 [] c = "." -> 46 [] c \in Digits -> 48 + DigitVal(c)
      [] c = ":" -> 58 [] c = "T" -> 84 [] c = "Z" -> 90

\* a <= b as JavaScript compares two strings: by the code units at the first
\* place they differ, a prefix before what it is a prefix of
StringLeq(a, b) ==
    LET differ == {i \in 1..Len(a) : i <= Len(b) /\ a[i] # b[i]}
    IN  IF differ = {} THEN Len(a) <= Len(b)
        ELSE LET i == CHOOSE j \in differ : \A k \in differ : j <= k
             IN  CodeUnit(a[i]) < CodeUnit(b[i])

\* C34: an entry buildEntry returns holds the timestamp the caller gave, as
\* given; when the caller gave none, it holds the instant the clock read at
\* the call, which compares, as a string, no less than any reading t1 taken
\* before the call and no greater than any reading t2 taken after it.
C34_Timestamp ==
    (LastBuild /\ LastReturned) =>
        LET o == last.call.opts
            t == last.call.entry.timestamp
        IN  /\ Given(o.timestamp) => t = o.timestamp
            /\ ~Given(o.timestamp) =>
                  /\ t = Str(toISOString(last.call.env.now))
                  /\ \A t1 \in 0..last.call.env.now : StringLeq(toISOString(t1), t.s)
                  /\ \A t2 \in last.call.env.now..MaxNow : StringLeq(t.s, toISOString(t2))

\* an entry built without a timestamp where the clock reads 10, after a
\* reading of 9
C34_Witness ==
    /\ LastBuild /\ LastReturned
    /\ last.call.opts.timestamp = Undef
    /\ last.call.env.now = 10
    /\ last.call.entry.timestamp = Str(toISOString(10))
    /\ StringLeq(toISOString(9), last.call.entry.timestamp.s)

RECURSIVE Seen(_, _)
\* the places of an argument list at which the loop of log-outcome looks for
\* an option: an option that takes a value is followed by its value
Seen(args, i) ==
    IF i > Len(args) THEN {}
    ELSE {i} \cup Seen(args, IF args[i] \in {FLAGS.task, FLAGS.quality, FLAGS.delta,
                                              FLAGS.lesson, FLAGS.channel}
                             THEN i + 2 ELSE i + 1)

\* the places at which the last run was given --channel
ChannelGiven == {i \in Seen(last.call.argv, 1) : last.call.argv[i] = FLAGS.channel}

\* C35: a run of log-outcome that logs an entry takes the channel from
\* --channel when the flag is given, whatever OPENCLAW_CHANNEL holds; without
\* the flag it takes OPENCLAW_CHANNEL when that is set and not empty, and
\* otherwise none.  The line written holds that channel, null when none.
C35_ChannelSource ==
    (LastExited /\ last.call.op = "log-outcome" /\ last.call.core = "done") =>
        LET log == fs[OUTCOMES].content
            v == ArgAt(last.call.argv,
                       1 + CHOOSE i \in ChannelGiven : \A j \in ChannelGiven : j <= i)
            e == last.call.env.channel
        IN  /\ parse(log[Len(log)]).channel = last.call.entry.channel
            /\ ChannelGiven # {} => last.call.entry.channel = Or(v, Null)
            /\ ChannelGiven = {} =>
                  last.call.entry.channel = IF Given(e) THEN e ELSE Null

\* the last call was a non-dry-run init that threw the load error
PromptThrown ==
    /\ LastInit /\ LastThrew /\ last.call.err = "PromptUnavailable"
    /\ ~Truthy(last.call.opts.dryRun)

\* C36: a non-dry-run init that throws because a prompt cannot be loaded has
\* by then created the layout: the six paths exist, those that existed before
\* as they were, the files it made with their default content; an init that
\* follows and returns reports the six entries as existed, none as created,
\* and changes nothing.
C36_PromptsLast ==
    /\ [](PromptThrown =>
            /\ \A q \in LayoutPaths : existsSync(fs, q)
            /\ \A q \in LayoutPaths : existsSync(last.pre, q) => fs[q] = last.pre[q]
            /\ \A i \in 1..Len(files) :
                  ~existsSync(last.pre, files[i][1]) => fs[files[i][1]] = File(files[i][2]))
    /\ [][(/\ PromptThrown
           /\ ncalls' = ncalls + 1
           /\ last'.call.op = "init" /\ last'.call.pc = "done")
            => /\ last'.call.report.existed = LabelsOf(Labels)
               /\ last'.call.report.created = <<>>
               /\ fs' = fs]_vars

\* the daily prompt was missing: the call threw after it had made the layout
\* around the log it found
C36_Witness ==
    /\ PromptThrown /\ ~last.call.env.prompts["daily"].ok
    /\ last.pre[OUTCOMES].kind = "file" /\ ~existsSync(last.pre, dirs[3])
    /\ ~existsSync(last.pre, PRINCIPLES)
    /\ fs[dirs[3]] = Dir /\ fs[PRINCIPLES] = File(principlesTemplate)
    /\ fs[OUTCOMES] = last.pre[OUTCOMES]

\* C37: no call of init, log or appendEntry, returned or thrown, removes
\* anything: what lies at a path of the workspace stays a directory or a file
\* as it was, a path that exists goes on existing, and the outcome log never
\* has fewer lines after a call than before it.
C37_Monotonic ==
    [][/\ \A q \in Paths :
            /\ fs[q].kind # "absent" => fs'[q].kind = fs[q].kind
            /\ existsSync(fs, q) => existsSync(fs', q)
       /\ Lines(fs') >= Lines(fs)]_vars

\* an init that threw after a log call had written a line: the line and the
\* paths are still there
C37_Witness ==
    /\ ncalls = 2 /\ LastInit /\ LastThrew
    /\ Len(logged) = 1 /\ Lines(last.pre) >= 1 /\ Lines(fs) = Lines(last.pre)
    /\ \A q \in Paths : existsSync(last.pre, q) => existsSync(fs, q)
    /\ existsSync(fs, OUTCOMES)

\* C38: buildEntry looks at the task first: a call whose task is missing,
\* not a string or blank throws the missing-task error whatever the quality
\* is; with a task, a quality that is not one of the five throws the
\* invalid-quality error; a call that throws returns no entry.
C38_TaskFirst ==
    (LastBuild /\ Finished(last.call)) =>
        /\ BlankTask(last.call.opts.task) => (LastThrew /\ last.call.err = "MissingTask")
        /\ (~BlankTask(last.call.opts.task) /\ ~ValidQuality(last.call.opts.quality)) =>
              (LastThrew /\ last.call.err = "InvalidQuality")
        /\ LastThrew => last.call.entry = NoEntry

\* a blank task with a quality that is no quality: the missing-task error
C38_Witness ==
    /\ LastBuild /\ LastThrew
    /\ last.call.opts.task = Str(<<" ", "\t">>)
    /\ last.call.opts.quality = Str(<<"g", "o", "o", "d">>)
    /\ last.call.err = "MissingTask"
    /\ last.call.entry = NoEntry

====
